---- MODULE Spec2Model ----
(***************************************************************************)
(* Finance Tracker: the HTTP API of server.js over its flat JSON files     *)
(* (transactions.json, settings.json, prices.json, categories.json) and    *)
(* the earlier revision of the server that stores purchases per payment    *)
(* type (POST /api/purchase).                                              *)
(*                                                                         *)
(* Numbers.  JavaScript numbers are modelled exactly, in fixed point:      *)
(*   money   in mills   (1/1000 dollar), so 100 dollars is 100000;         *)
(*   rates   in 1/10000 (0.03 is 300, 0.0473 is 473, 1 is 10000);          *)
(*   prices  in cents;                                                     *)
(*   SOL quantities as fractions [n, d] of integers.                       *)
(* Strings that the code trims are sequences of one-character strings.     *)
(* A calendar date string is the record of the three numbers written in    *)
(* it; what new Date() makes of it is computed by ParseLocalDate.          *)
(***************************************************************************)
EXTENDS Integers, Sequences, FiniteSets, TLC

VARIABLES
    revision,        \* which server.js is running: "tracker" or "purchase"
    txFile,          \* content of data/transactions.json
    settingsFile,    \* content of data/settings.json
    pricesFile,      \* content of data/prices.json
    categoriesFile,  \* content of data/categories.json
    assets,          \* purchase revision: Assets/<type>/<type>_<year>.json
    nextId,          \* source of the fresh part of a transaction id
    dash,            \* the GET /api/dashboard request in flight, if any
    priceReq,        \* the GET /api/price/sol request in flight, if any
    posts,           \* POST /api/transactions requests in flight side by side
    txTemp,          \* content of data/transactions.json.tmp
    livePriceCache,  \* the in-memory cache of GET /api/price/sol/live
    liveReq,         \* GET /api/price/sol/live requests in flight
    now,             \* Date.now(), in minutes
    page,            \* the browser page: selected period, fetches, panels
    resp             \* the last request taken up, and its response

vars == <<revision, txFile, settingsFile, pricesFile, categoriesFile,
          assets, nextId, dash, priceReq, posts, txTemp, livePriceCache,
          liveReq, now, page, resp>>

\* what the handlers of requests taken one at a time leave alone
postVars == <<posts, txTemp>>
liveVars == <<livePriceCache, liveReq, now>>

-----------------------------------------------------------------------------
(* Bounds of the model *)

MaxTx == 2        \* POST /api/transactions is explored while the list is shorter
MaxId == 3        \* number of ids handed out
MaxApiTx == 1     \* the same two bounds where the whole API is explored
MaxPurchases == 2 \* POST /api/purchase is explored this many times
MaxDashTx == 2    \* longest stored list the price lookups are explored on
MaxPosts == 2     \* POST /api/transactions requests in flight at a time
MaxPostId == 3    \* ids handed out to requests in flight side by side
MaxTypeLen == 3   \* longest paymentType POST /api/purchase is explored with
MaxLive == 2      \* GET /api/price/sol/live requests in flight at a time
MaxFetches == 4  \* fetches of the page in flight
MaxNow == 30      \* minutes the clock is let run

-----------------------------------------------------------------------------
(* JavaScript values of a request body or a JSON file *)

JsUndefined == [t |-> "undefined"]
JsNull == [t |-> "null"]
JsNaN == [t |-> "NaN"]
JsNum(n) == [t |-> "number", v |-> n]
JsStr(s) == [t |-> "string", s |-> s]

\* typeof x === 'number' (NaN is a number)
IsNumber(x) == x.t \in {"number", "NaN"}

Space == " "

RECURSIVE TrimLeft(_)
TrimLeft(s) ==
    IF s # <<>> /\ Head(s) = Space THEN TrimLeft(Tail(s)) ELSE s

RECURSIVE TrimRight(_)
TrimRight(s) ==
    IF s # <<>> /\ s[Len(s)] = Space
    THEN TrimRight(SubSeq(s, 1, Len(s) - 1))
    ELSE s

\* String.prototype.trim
Trim(s) == TrimRight(TrimLeft(s))

Uncategorized == <<"U","n","c","a","t","e","g","o","r","i","z","e","d">>

UpperCase ==
    <<"A","B","C","D","E","F","G","H","I","J","K","L","M",
      "N","O","P","Q","R","S","T","U","V","W","X","Y","Z">>
LowerCase ==
    <<"a","b","c","d","e","f","g","h","i","j","k","l","m",
      "n","o","p","q","r","s","t","u","v","w","x","y","z">>

\* the lower-case letter of each of the letters A to Z
UpperToLower ==
    [c \in {UpperCase[k] : k \in 1..Len(UpperCase)} |->
        LowerCase[CHOOSE k \in 1..Len(UpperCase) : UpperCase[k] = c]]

\* String.prototype.toLowerCase, for the letters A to Z
toLowerCase(s) ==
    [i \in 1..Len(s) |->
        IF s[i] \in DOMAIN UpperToLower THEN UpperToLower[s[i]] ELSE s[i]]

-----------------------------------------------------------------------------
(* Rounding *)

\* Math.round(n / d) for d > 0: the nearest integer, a half goes up
MathRound(n, d) == (n \div d) + ((2 * (n % d) + d) \div (2 * d))

RECURSIVE Gcd(_, _)
Gcd(a, b) == IF b = 0 THEN a ELSE Gcd(b, a % b)

Abs(n) == IF n < 0 THEN -n ELSE n

\* Math.round(n * k / (d * e)) for d > 0 and e > 0, the quotient k / (d * e)
\* taken in lowest terms first
MathRoundScaled(n, k, d, e) ==
    LET g1 == Gcd(Abs(k), e)
        g2 == Gcd(Abs(k) \div g1, d)
    IN  MathRound(n * ((k \div g1) \div g2), (d \div g2) * (e \div g1))

\* Math.floor in the place of Math.round
calculateCashbackFloor(amount, rate) == 10 * ((amount * rate) \div 100000)

\* calculateCashback(amount, rate): Math.round(amount * rate * 100) / 100,
\* amount in mills, rate in 1/10000, the result in mills
calculateCashback(amount, rate) == 10 * MathRoundScaled(amount, rate, 100000, 1)

\* moneyRound(value): Math.round(value * 100) / 100 of a value in mills
moneyRound(value) == 10 * MathRound(value, 10)

\* moneyRound(amount * rate), amount in mills, rate in 1/10000
moneyRoundRate(amount, rate) == 10 * MathRoundScaled(amount, rate, 100000, 1)

-----------------------------------------------------------------------------
(* Dates *)

IsLeap(y) == (y % 4 = 0 /\ y % 100 # 0) \/ y % 400 = 0

DaysInMonth(y, m) ==
    IF m = 2 THEN (IF IsLeap(y) THEN 29 ELSE 28)
    ELSE IF m \in {4, 6, 9, 11} THEN 30 ELSE 31

\* /^\d{4}-\d{2}-\d{2}$/.test(date): the request's date is undefined, a
\* string the pattern rejects, or four-two-two digits
MatchesDatePattern(date) == date.t = "date"

\* new Date(date + 'T00:00:00') of a string the pattern accepts. The engine
\* takes a month 01..12 and a day 01..31 whatever the month, and carries a
\* day past the month's end into the next month; anything else is an
\* Invalid Date (NaN).
ParseLocalDate(date) ==
    IF date.m < 1 \/ date.m > 12 \/ date.d < 1 \/ date.d > 31
    THEN [nan |-> TRUE]
    ELSE IF date.d <= DaysInMonth(date.y, date.m)
    THEN [nan |-> FALSE, y |-> date.y, m |-> date.m, d |-> date.d]
    ELSE IF date.m = 12
    THEN [nan |-> FALSE, y |-> date.y + 1, m |-> 1,
          d |-> date.d - DaysInMonth(date.y, date.m)]
    ELSE [nan |-> FALSE, y |-> date.y, m |-> date.m + 1,
          d |-> date.d - DaysInMonth(date.y, date.m)]

DateStr(y, m, d) == [t |-> "date", y |-> y, m |-> m, d |-> d]

\* the clock: the day the requests are made
Today == DateStr(2026, 2, 15)

-----------------------------------------------------------------------------
(* Query parameters: absent, a string parseInt reads as the integer v, or *)
(* a string parseInt reads as NaN                                          *)

QAbsent == [t |-> "absent"]
QInt(n) == [t |-> "int", v |-> n]
QText == [t |-> "text"]

\* getMonthName(month): months[month - 1]
getMonthName(month) ==
    IF month \in 1..12
    THEN <<"January", "February", "March", "April", "May", "June", "July",
           "August", "September", "October", "November", "December">>[month]
    ELSE "undefined"

-----------------------------------------------------------------------------
(* The JSON files *)

\* transactions.json: text JSON.parse rejects, JSON that is no array (null,
\* an object), or an array of transactions
TxUnparsable == [kind |-> "unparsable"]
TxNotArray == [kind |-> "notarray"]
TxArray(list) == [kind |-> "array", list |-> list]

\* settings.json: text JSON.parse rejects, the JSON null, or an object (or
\* array) whose two fields are JavaScript values, undefined when absent
SettingsUnparsable == [kind |-> "unparsable"]
SettingsNull == [kind |-> "null"]
SettingsObject(rate, apr) ==
    [kind |-> "object", cashbackRate |-> rate, stakingAPR |-> apr]

DefaultCashbackRate == 300
DefaultStakingAPR == 473

SettingsDefaults ==
    [cashbackRate |-> DefaultCashbackRate, stakingAPR |-> DefaultStakingAPR]

\* readSettings(): the settings in use, and the file as it leaves it (the
\* catch branch rewrites the defaults)
readSettings(file) ==
    IF file.kind = "object"
    THEN [settings |->
            [cashbackRate |-> IF IsNumber(file.cashbackRate)
                              THEN file.cashbackRate.v
                              ELSE SettingsDefaults.cashbackRate,
             stakingAPR |-> IF IsNumber(file.stakingAPR)
                            THEN file.stakingAPR.v
                            ELSE SettingsDefaults.stakingAPR],
          file |-> file]
    ELSE [settings |-> SettingsDefaults,
          file |-> SettingsObject(JsNum(SettingsDefaults.cashbackRate),
                                  JsNum(SettingsDefaults.stakingAPR))]

-----------------------------------------------------------------------------
(* Sequences of transactions *)

RECURSIVE SumAmounts(_)
SumAmounts(list) ==
    IF list = <<>> THEN 0 ELSE Head(list).amount + SumAmounts(Tail(list))

\* Array.prototype.findIndex(t => t.id === id): the first index, 0 for none
RECURSIVE findIndexFrom(_, _, _)
findIndexFrom(list, id, i) ==
    IF i > Len(list) THEN 0
    ELSE IF list[i].id = id THEN i
    ELSE findIndexFrom(list, id, i + 1)

findIndex(list, id) == findIndexFrom(list, id, 1)

\* splice(index) without the count removes the rest of the array
spliceToEnd(list, index) == SubSeq(list, 1, index - 1)

\* Array.prototype.splice(index, 1)
splice(list, index) ==
    SubSeq(list, 1, index - 1) \o SubSeq(list, index + 1, Len(list))

\* the filter of GET /api/monthly and filterByMonth: the local year and
\* month of new Date(transaction.date + 'T00:00:00')
filterByMonth(transactions, year, month) ==
    LET InMonth(t) ==
            LET p == ParseLocalDate(t.date)
            IN  ~p.nan /\ p.y = year /\ p.m = month
    IN  SelectSeq(transactions, InMonth)

\* the sequence without its i-th element
RemoveAt(seq, i) == SubSeq(seq, 1, i - 1) \o SubSeq(seq, i + 1, Len(seq))

\* transaction.category || 'Uncategorized'
CategoryOf(t) == IF t.category = <<>> THEN Uncategorized ELSE t.category

-----------------------------------------------------------------------------
(* Requests are handled one at a time in Spec: a handler that suspends on  *)
(* its price lookups (dashboard, price) finishes before the next starts.   *)

Idle == dash.pc = "idle" /\ priceReq.pc = "idle"

\* While the handler of a request is suspended, resp names the request with
\* status 0: no response yet.

Tracker == revision = "tracker" /\ Idle

-----------------------------------------------------------------------------
(* POST /api/transactions *)

\* !description || typeof description !== 'string' || description.trim() === ''
DescriptionInvalid(description) ==
    \/ description.t # "string"
    \/ description.s = <<>>
    \/ Trim(description.s) = <<>>

\* typeof amount !== 'number' || amount <= 0 || isNaN(amount)
AmountInvalid(amount) ==
    \/ ~IsNumber(amount)
    \/ amount.t = "NaN"
    \/ amount.v <= 0

\* !date || !/^\d{4}-\d{2}-\d{2}$/.test(date)
DatePatternInvalid(date) == ~MatchesDatePattern(date)

\* isNaN(new Date(date + 'T00:00:00').getTime())
DateInvalid(date) == ParseLocalDate(date).nan

\* (category && typeof category === 'string' && category.trim() !== '')
\*     ? category.trim() : 'Uncategorized'
validCategory(category) ==
    IF category.t = "string" /\ category.s # <<>> /\ Trim(category.s) # <<>>
    THEN Trim(category.s)
    ELSE Uncategorized

\* the id of a new transaction: Date.now() and nine random characters, here
\* a value no earlier transaction was given
NewId == nextId

newTransaction(body) ==
    [id |-> NewId,
     date |-> body.date,
     description |-> Trim(body.description.s),
     category |-> validCategory(body.category),
     amount |-> body.amount.v]

PostOp == "POST /api/transactions"

\* the request passes the validation and the file holds an array
PostAccepted(body) ==
    /\ ~DescriptionInvalid(body.description)
    /\ ~AmountInvalid(body.amount)
    /\ ~DatePatternInvalid(body.date)
    /\ ~DateInvalid(body.date)
    /\ txFile.kind = "array"

PostTransaction(body) ==
    /\ UNCHANGED <<postVars, liveVars, page>>
    /\ Tracker
    /\ IF DescriptionInvalid(body.description)
       THEN /\ resp' = [op |-> PostOp, req |-> body, status |-> 400,
                        error |-> "description is required and must be a non-empty string"]
            /\ UNCHANGED <<txFile, nextId>>
       ELSE IF AmountInvalid(body.amount)
       THEN /\ resp' = [op |-> PostOp, req |-> body, status |-> 400,
                        error |-> "amount must be a positive number"]
            /\ UNCHANGED <<txFile, nextId>>
       ELSE IF DatePatternInvalid(body.date)
       THEN /\ resp' = [op |-> PostOp, req |-> body, status |-> 400,
                        error |-> "date is required and must be in YYYY-MM-DD format"]
            /\ UNCHANGED <<txFile, nextId>>
       ELSE IF DateInvalid(body.date)
       THEN /\ resp' = [op |-> PostOp, req |-> body, status |-> 400,
                        error |-> "Invalid date format"]
            /\ UNCHANGED <<txFile, nextId>>
       ELSE IF txFile.kind # "array"
       THEN \* JSON.parse throws, or push is no function of the parsed value
            /\ resp' = [op |-> PostOp, req |-> body, status |-> 500,
                        error |-> "Failed to create transaction"]
            /\ UNCHANGED <<txFile, nextId>>
       ELSE /\ txFile' = TxArray(Append(txFile.list, newTransaction(body)))
            /\ nextId' = nextId + 1
            /\ resp' = [op |-> PostOp, req |-> body, status |-> 201,
                        body |-> newTransaction(body)]
    /\ UNCHANGED <<revision, settingsFile, pricesFile, categoriesFile,
                   assets, dash, priceReq>>

-----------------------------------------------------------------------------
(* DELETE /api/transactions/:id *)

DeleteOp == "DELETE /api/transactions/:id"

DeleteTransaction(id) ==
    /\ UNCHANGED <<postVars, liveVars, page>>
    /\ Tracker
    /\ IF txFile.kind # "array"
       THEN \* JSON.parse throws, or findIndex is no function of the value
            /\ resp' = [op |-> DeleteOp, id |-> id, status |-> 500,
                        error |-> "Failed to delete transaction"]
            /\ UNCHANGED txFile
       ELSE IF findIndex(txFile.list, id) = 0
       THEN /\ resp' = [op |-> DeleteOp, id |-> id, status |-> 404,
                        error |-> "Transaction not found"]
            /\ UNCHANGED txFile
       ELSE /\ txFile' = TxArray(splice(txFile.list, findIndex(txFile.list, id)))
            /\ resp' = [op |-> DeleteOp, id |-> id, status |-> 200,
                        body |-> [ok |-> TRUE, deletedId |-> id]]
    /\ UNCHANGED <<revision, settingsFile, pricesFile, categoriesFile,
                   assets, nextId, dash, priceReq>>

-----------------------------------------------------------------------------
(* GET /api/monthly *)

\* parseInt(param) || fallback: NaN and 0 give the fallback
parseIntOr(param, fallback) ==
    IF param.t = "int" /\ param.v # 0 THEN param.v ELSE fallback

\* the transactions of the month with their cashback
RECURSIVE transactionsWithCashback(_, _)
transactionsWithCashback(list, rate) ==
    IF list = <<>> THEN <<>>
    ELSE <<[id |-> Head(list).id,
            date |-> Head(list).date,
            description |-> Head(list).description,
            category |-> CategoryOf(Head(list)),
            amount |-> Head(list).amount,
            cashback |-> calculateCashback(Head(list).amount, rate)]>>
         \o transactionsWithCashback(Tail(list), rate)

RECURSIVE SumCashback(_)
SumCashback(list) ==
    IF list = <<>> THEN 0 ELSE Head(list).cashback + SumCashback(Tail(list))

\* totals.spent and totals.cashback are summed and then rounded
monthlyTotals(withCashback) ==
    [spent |-> moneyRound(SumAmounts(withCashback)),
     cashback |-> moneyRound(SumCashback(withCashback)),
     count |-> Len(withCashback)]

\* categorySummary: per category, the sum of the amounts, then rounded
categorySummary(list) ==
    LET cats == {CategoryOf(list[i]) : i \in 1..Len(list)}
        InCat(c) == LET Is(t) == CategoryOf(t) = c IN SelectSeq(list, Is)
    IN  [c \in cats |-> moneyRound(SumAmounts(InCat(c)))]

MonthlyOp == "GET /api/monthly"

GetMonthly(qyear, qmonth) ==
    /\ UNCHANGED <<postVars, liveVars, page>>
    /\ Tracker
    /\ LET year == parseIntOr(qyear, Today.y)
           month == parseIntOr(qmonth, Today.m)
           rs == readSettings(settingsFile)
       IN  /\ settingsFile' = rs.file
           /\ IF txFile.kind # "array"
              THEN \* JSON.parse throws, or filter is no function of the value
                   resp' = [op |-> MonthlyOp, qyear |-> qyear, qmonth |-> qmonth,
                            status |-> 500,
                            error |-> "Failed to fetch monthly data"]
              ELSE LET monthTransactions == filterByMonth(txFile.list, year, month)
                       withCashback ==
                           transactionsWithCashback(monthTransactions,
                                                    rs.settings.cashbackRate)
                   IN  resp' = [op |-> MonthlyOp, qyear |-> qyear,
                                qmonth |-> qmonth, status |-> 200,
                                body |-> [year |-> year,
                                          month |-> month,
                                          label |-> <<getMonthName(month), year>>,
                                          totals |-> monthlyTotals(withCashback),
                                          categorySummary |->
                                              categorySummary(monthTransactions),
                                          transactions |-> withCashback]]
    /\ UNCHANGED <<revision, txFile, pricesFile, categoriesFile,
                   assets, nextId, dash, priceReq>>

-----------------------------------------------------------------------------
(* prices.json and the external price API *)

\* prices.json: text JSON.parse rejects, the JSON null, an object without a
\* "sol" member ({} or an array), or {"sol": {date: price}}
PricesUnparsable == [kind |-> "unparsable"]
PricesNull == [kind |-> "null"]
PricesNoSol == [kind |-> "nosol"]
PricesCache(sol) == [kind |-> "cache", sol |-> sol]

EmptyMap == [x \in {} |-> 0]

MapPut(f, k, v) == [x \in DOMAIN f \cup {k} |-> IF x = k THEN v ELSE f[x]]

\* prices.json while fs.writeFile is at work on it: the file was opened and
\* truncated and the new text is not yet written, so what is there is a
\* prefix of the new text, which JSON.parse rejects; "was" remembers the
\* entries the file held before
PricesPartial(was) == [kind |-> "partial", was |-> was]

\* readPricesCache(): the parsed file, {"sol": {}} when it cannot be parsed
readPricesCache(file) ==
    IF file.kind \in {"unparsable", "partial"} THEN PricesCache(EmptyMap) ELSE file

\* cache.sol[date] throws a TypeError when cache is null or has no "sol"
CacheThrows(cache) == cache.kind # "cache"

\* if (cache.sol[date]): the date has a price and the price is not 0
CacheHit(cache, date) == date \in DOMAIN cache.sol /\ cache.sol[date] # 0

\* fetchSolPriceFromApi(date) throws, or returns the number the API gave
ApiFail == [ok |-> FALSE]
ApiPrice(p) == [ok |-> TRUE, price |-> p]

-----------------------------------------------------------------------------
(* Numbers that are not money: a quotient n/d with d > 0, Infinity,        *)
(* -Infinity or NaN                                                        *)

\* the quotient n/d in lowest terms (the numbers of the model stay small)
Fin(n, d) ==
    LET g == Gcd(Abs(n), d)
    IN  [k |-> "fin", n |-> n \div g, d |-> d \div g]

PosInf == [k |-> "inf"]
NegInf == [k |-> "-inf"]
NaN == [k |-> "nan"]
Zero == Fin(0, 1)

\* cashbackUSD / priceUSD: mills over cents, in SOL
DivPrice(cashbackUSD, priceUSD) ==
    IF priceUSD > 0 THEN Fin(cashbackUSD, 10 * priceUSD)
    ELSE IF priceUSD < 0 THEN Fin(-cashbackUSD, -10 * priceUSD)
    ELSE IF cashbackUSD > 0 THEN PosInf
    ELSE IF cashbackUSD < 0 THEN NegInf
    ELSE NaN

\* a + b
NumAdd(a, b) ==
    IF a.k = "nan" \/ b.k = "nan" THEN NaN
    ELSE IF a.k = "fin" /\ b.k = "fin"
    THEN LET g == Gcd(a.d, b.d)
         IN  Fin(a.n * (b.d \div g) + b.n * (a.d \div g), a.d * (b.d \div g))
    ELSE IF a.k = "fin" THEN b
    ELSE IF b.k = "fin" THEN a
    ELSE IF a.k = b.k THEN a
    ELSE NaN

\* a * (sn / sd), for sd > 0
NumScale(a, sn, sd) ==
    IF a.k = "nan" THEN NaN
    ELSE IF a.k = "fin"
    THEN LET g1 == Gcd(Abs(sn), sd)
             g2 == Gcd(Abs(a.n), sd \div g1)
             g3 == Gcd(Abs(sn) \div g1, a.d)
         IN  Fin((a.n \div g2) * ((sn \div g1) \div g3),
                 (a.d \div g3) * ((sd \div g1) \div g2))
    ELSE IF sn = 0 THEN NaN
    ELSE IF (sn > 0) = (a.k = "inf") THEN PosInf
    ELSE NegInf

\* a > 0
NumPositive(a) == a.k = "inf" \/ (a.k = "fin" /\ a.n > 0)

\* Number((a / unit).toFixed(6)) as JSON writes it, in millionths: Infinity
\* and NaN are written null
toFixed6Of(a, unit) ==
    IF a.k # "fin" THEN JsNull
    ELSE IF a.n >= 0 THEN JsNum(MathRoundScaled(a.n, 1000000, a.d, unit))
    ELSE JsNum(-MathRoundScaled(-a.n, 1000000, a.d, unit))

toFixed6(a) == toFixed6Of(a, 1)

\* Number((staked * (rn / rd)).toFixed(6)) of a value toFixed6 returned
scaleFixed6(staked, rn, rd) ==
    IF staked.t = "null" THEN JsNull
    ELSE IF rn = 0 THEN JsNum(0)
    ELSE IF (staked.v >= 0) = (rn > 0)
    THEN JsNum(MathRoundScaled(Abs(staked.v), Abs(rn), rd, 1))
    ELSE JsNum(-MathRoundScaled(Abs(staked.v), Abs(rn), rd, 1))

\* moneyRound(usd / sol) of a sol > 0, as JSON writes it, in mills
moneyRoundQuotient(usd, sol) ==
    IF sol.k = "fin" THEN JsNum(10 * MathRoundScaled(usd, sol.d, sol.n, 10))
    ELSE JsNum(0)

\* moneyRound((sol / unit) * priceUSD) as JSON writes it, in mills
moneyRoundProduct(sol, unit, priceUSD) ==
    IF sol.k # "fin" THEN JsNull
    ELSE IF priceUSD = 0 THEN JsNum(0)
    ELSE IF priceUSD > 0 THEN JsNum(10 * MathRoundScaled(sol.n, priceUSD, sol.d, unit))
    ELSE JsNum(-10 * MathRoundScaled(-sol.n, -priceUSD, sol.d, unit))

-----------------------------------------------------------------------------
(* Day arithmetic *)

RECURSIVE DaysBeforeMonth(_, _)
DaysBeforeMonth(y, m) ==
    IF m <= 1 THEN 0 ELSE DaysInMonth(y, m - 1) + DaysBeforeMonth(y, m - 1)

\* the day number of a parsed date: days since the start of year 1
DayNumber(p) ==
    365 * (p.y - 1) + ((p.y - 1) \div 4) - ((p.y - 1) \div 100)
    + ((p.y - 1) \div 400) + DaysBeforeMonth(p.y, p.m) + p.d

-----------------------------------------------------------------------------
(* GET /api/dashboard: the handler suspends on every price lookup, and a   *)
(* lookup that misses the cache suspends again on the external API         *)

DashboardOp == "GET /api/dashboard"

\* readTransactions(): the array, [] for anything else
readTransactions(file) == IF file.kind = "array" THEN file.list ELSE <<>>

\* no transaction is taken to be dated after today
NeverFuture(t) == FALSE

\* transactionDateObj > asOfDateObj
IsFuture(t) == DayNumber(ParseLocalDate(t.date)) > DayNumber(ParseLocalDate(Today))

\* Math.max(0, Math.floor((asOfDateObj - transactionDateObj) / one day))
daysStaked(t) ==
    LET diff == DayNumber(ParseLocalDate(Today)) - DayNumber(ParseLocalDate(t.date))
    IN  IF diff > 0 THEN diff ELSE 0

\* the next lookup of the handler from position (phase, i): the month's
\* transactions, then every transaction not dated after today, then today
RECURSIVE Settle(_)
Settle(d) ==
    IF d.phase = "month" /\ d.i > Len(d.monthTransactions)
    THEN Settle([d EXCEPT !.phase = "all", !.i = 1])
    ELSE IF d.phase = "all" /\ d.i > Len(d.allTransactions)
    THEN [d EXCEPT !.phase = "today", !.i = 1]
    ELSE IF d.phase = "all" /\ IsFuture(d.allTransactions[d.i])
    THEN Settle([d EXCEPT !.i = d.i + 1])
    ELSE d

\* the date the handler asks getSolPriceForDate for
LookupDate(d) ==
    IF d.phase = "month" THEN d.monthTransactions[d.i].date
    ELSE IF d.phase = "all" THEN d.allTransactions[d.i].date
    ELSE Today

\* earnedSOL is kept in units of 1/AprYear SOL: a rate is a number of
\* 1/10000 and daysStaked / 365 a number of 1/365
AprYear == 10000 * 365

\* the loop body that follows a lookup; price is null or a number.
\* pricedCashbackUSD is no variable of the handler: it adds up the cashback
\* of the month's transactions whose price is not null. Neither are priced
\* and pricedToDate, the ids of the transactions either loop divided by a
\* price, nor accrued, what each transaction added to earnedSOL
ApplyPrice(d, price) ==
    IF d.phase = "month"
    THEN LET cashbackUSD == moneyRoundRate(d.monthTransactions[d.i].amount,
                                           d.settings.cashbackRate)
         IN  [d EXCEPT
                !.i = d.i + 1,
                !.cashbacks = Append(d.cashbacks, cashbackUSD),
                !.solTotalCashbackUSD = d.solTotalCashbackUSD + cashbackUSD,
                !.solTotalSOL = IF price.t = "null" THEN d.solTotalSOL
                                ELSE NumAdd(d.solTotalSOL,
                                            DivPrice(cashbackUSD, price.v)),
                !.solSkipped = IF price.t = "null" THEN d.solSkipped + 1
                               ELSE d.solSkipped,
                !.pricedCashbackUSD = IF price.t = "null" THEN d.pricedCashbackUSD
                                      ELSE d.pricedCashbackUSD + cashbackUSD,
                !.priced = IF price.t = "null" THEN d.priced
                           ELSE Append(d.priced, d.monthTransactions[d.i].id),
                !.dividedByZero = d.dividedByZero
                                  \/ (price.t # "null" /\ price.v = 0)]
    ELSE IF d.phase = "all"
    THEN LET t == d.allTransactions[d.i]
             cashbackUSD == moneyRoundRate(t.amount, d.settings.cashbackRate)
         IN  [d EXCEPT
                !.i = d.i + 1,
                !.earnedSOL =
                    IF price.t = "null" THEN d.earnedSOL
                    ELSE NumAdd(d.earnedSOL,
                                NumScale(DivPrice(cashbackUSD, price.v),
                                         d.settings.stakingAPR * daysStaked(t),
                                         1)),
                !.skippedToDate = IF price.t = "null" THEN d.skippedToDate + 1
                                  ELSE d.skippedToDate,
                !.pricedToDate = IF price.t = "null" THEN d.pricedToDate
                                 ELSE Append(d.pricedToDate, t.id),
                !.accrued =
                    IF price.t = "null" THEN d.accrued
                    ELSE Append(d.accrued,
                                [id |-> t.id, cashbackUSD |-> cashbackUSD,
                                 price |-> price.v,
                                 earned |->
                                    NumScale(DivPrice(cashbackUSD, price.v),
                                             d.settings.stakingAPR * daysStaked(t),
                                             1)]),
                !.dividedByZero = d.dividedByZero
                                  \/ (price.t # "null" /\ price.v = 0)]
    ELSE [d EXCEPT !.phase = "done", !.todayPriceUSD = price]

\* solTotalSOL > 0 ? moneyRound(solTotalCashbackUSD / solTotalSOL) : null
solAvgPriceUSD(usd, sol) ==
    IF NumPositive(sol) THEN moneyRoundQuotient(usd, sol) ELSE JsNull

\* the response built after the last lookup
DashResponse(d) ==
    LET stakedSOL == toFixed6(d.solTotalSOL)
    IN  [op |-> DashboardOp, qyear |-> d.qyear, qmonth |-> d.qmonth,
         status |-> 200,
         body |->
           [period |-> [year |-> d.year, month |-> d.month,
                        label |-> <<getMonthName(d.month), d.year>>],
            spending |-> [count |-> Len(d.monthTransactions),
                          totalSpent |-> moneyRound(d.totalSpent)],
            cashback |-> [rate |-> d.settings.cashbackRate,
                          totalCashbackUSD |->
                              moneyRoundRate(d.totalSpent, d.settings.cashbackRate)],
            sol |-> [totalCashbackUSD |-> moneyRound(d.solTotalCashbackUSD),
                     totalSOL |-> stakedSOL,
                     avgPriceUSD |-> solAvgPriceUSD(d.solTotalCashbackUSD,
                                                    d.solTotalSOL),
                     skipped |-> d.solSkipped],
            staking |-> [apr |-> d.settings.stakingAPR,
                         stakedSOL |-> stakedSOL,
                         estMonthlyRewardSOL |->
                             scaleFixed6(stakedSOL, d.settings.stakingAPR, 120000),
                         estYearlyRewardSOL |->
                             scaleFixed6(stakedSOL, d.settings.stakingAPR, 10000)],
            stakingToDate |->
                [asOf |-> Today,
                 earnedSOL |-> toFixed6Of(d.earnedSOL, AprYear),
                 earnedUSD |-> IF d.todayPriceUSD.t = "null" THEN JsNum(0)
                               ELSE moneyRoundProduct(d.earnedSOL, AprYear,
                                                      d.todayPriceUSD.v),
                 apr |-> d.settings.stakingAPR,
                 priceUSD |-> IF d.todayPriceUSD.t = "null" THEN JsNull
                              ELSE JsNum(10 * d.todayPriceUSD.v),
                 skipped |-> d.skippedToDate]],
         \* what the handler computed on the way, for the properties below
         locals |-> [monthTransactions |-> d.monthTransactions,
                     cashbacks |-> d.cashbacks,
                     solTotalSOL |-> d.solTotalSOL,
                     pricedCashbackUSD |-> d.pricedCashbackUSD,
                     allTransactions |-> d.allTransactions,
                     priced |-> d.priced,
                     pricedToDate |-> d.pricedToDate,
                     accrued |-> d.accrued,
                     earnedSOL |-> d.earnedSOL,
                     todayPriceUSD |-> d.todayPriceUSD,
                     dividedByZero |-> d.dividedByZero]]

\* yearParam ? parseInt(yearParam) : fallback
parseIntParam(param, fallback) ==
    IF param.t = "absent" THEN JsNum(fallback)
    ELSE IF param.t = "int" THEN JsNum(param.v)
    ELSE JsNaN

\* parseYearMonth(yearParam, monthParam): the message of the Error thrown,
\* or "" and the pair
parseYearMonth(yearParam, monthParam) ==
    LET year == parseIntParam(yearParam, Today.y)
        month == parseIntParam(monthParam, Today.m)
    IN  IF year.t = "NaN" \/ year.v < 2000 \/ year.v > 2100
        THEN [error |-> "Invalid year. Must be between 2000 and 2100"]
        ELSE IF month.t = "NaN" \/ month.v < 1 \/ month.v > 12
        THEN [error |-> "Invalid month. Must be between 1 and 12"]
        ELSE [error |-> "", year |-> year.v, month |-> month.v]

DashIdle == [pc |-> "idle"]

\* the handler up to its first price lookup
DashHandle(qyear, qmonth) ==
    /\ UNCHANGED <<postVars, liveVars, page>>
    /\ LET parsed == parseYearMonth(qyear, qmonth)
           rs == readSettings(settingsFile)
           allTransactions == readTransactions(txFile)
       IN  IF parsed.error # ""
           THEN /\ resp' = [op |-> DashboardOp, qyear |-> qyear, qmonth |-> qmonth,
                            status |-> 400, error |-> "Invalid query parameters",
                            message |-> parsed.error]
                /\ UNCHANGED <<dash, settingsFile>>
           ELSE /\ settingsFile' = rs.file
                /\ dash' = Settle(
                     [pc |-> "read", phase |-> "month", i |-> 1,
                      qyear |-> qyear, qmonth |-> qmonth,
                      year |-> parsed.year, month |-> parsed.month,
                      settings |-> rs.settings,
                      allTransactions |-> allTransactions,
                      monthTransactions |->
                          filterByMonth(allTransactions, parsed.year, parsed.month),
                      totalSpent |-> SumAmounts(
                          filterByMonth(allTransactions, parsed.year, parsed.month)),
                      cache |-> EmptyMap,
                      cashbacks |-> <<>>,
                      solTotalCashbackUSD |-> 0,
                      solTotalSOL |-> Zero,
                      solSkipped |-> 0,
                      pricedCashbackUSD |-> 0,
                      priced |-> <<>>,
                      pricedToDate |-> <<>>,
                      accrued |-> <<>>,
                      earnedSOL |-> Zero,
                      skippedToDate |-> 0,
                      todayPriceUSD |-> JsNull,
                      dividedByZero |-> FALSE])
                /\ resp' = [op |-> DashboardOp, qyear |-> qyear,
                            qmonth |-> qmonth, status |-> 0]
    /\ UNCHANGED <<revision, txFile, pricesFile, categoriesFile, assets, nextId,
                   priceReq>>

DashStart(qyear, qmonth) == Tracker /\ DashHandle(qyear, qmonth)

\* the handler goes on with the price of the lookup: to the next lookup, or
\* to the response
DashContinue(d, price) ==
    LET after == ApplyPrice(d, price)
    IN  IF after.phase = "done"
        THEN /\ resp' = DashResponse(after)
             /\ dash' = DashIdle
        ELSE /\ dash' = Settle([after EXCEPT !.pc = "read", !.cache = EmptyMap])
             /\ UNCHANGED resp

\* getSolPriceForDate, up to the call of the API: the cache is read; a
\* cache that is no {"sol": ...} throws into the handler's catch
DashRead ==
    /\ UNCHANGED <<postVars, liveVars, page>>
    /\ revision = "tracker"
    /\ dash.pc = "read"
    /\ LET cache == readPricesCache(pricesFile)
           date == LookupDate(dash)
       IN  IF CacheThrows(cache)
           THEN /\ resp' = [op |-> DashboardOp, qyear |-> dash.qyear,
                            qmonth |-> dash.qmonth, status |-> 500,
                            error |-> "Failed to fetch dashboard data"]
                /\ dash' = DashIdle
           ELSE IF CacheHit(cache, date)
           THEN DashContinue(dash, JsNum(cache.sol[date]))
           ELSE /\ dash' = [dash EXCEPT !.pc = "fetch", !.cache = cache.sol]
                /\ UNCHANGED resp
    /\ UNCHANGED <<revision, txFile, settingsFile, pricesFile, categoriesFile,
                   assets, nextId, priceReq>>

\* getSolPriceForDate, from the API's answer: a price is put into the cache
\* that was read and the whole cache is written; a failure gives null
DashFetch(outcome) ==
    /\ UNCHANGED <<postVars, liveVars, page>>
    /\ revision = "tracker"
    /\ dash.pc = "fetch"
    /\ IF outcome.ok
       THEN /\ pricesFile' = PricesCache(MapPut(dash.cache, LookupDate(dash),
                                                outcome.price))
            /\ DashContinue(dash, JsNum(outcome.price))
       ELSE /\ UNCHANGED pricesFile
            /\ DashContinue(dash, JsNull)
    /\ UNCHANGED <<revision, txFile, settingsFile, categoriesFile, assets,
                   nextId, priceReq>>

-----------------------------------------------------------------------------
(* GET /api/price/sol?date= *)

PriceOp == "GET /api/price/sol"

PriceIdle == [pc |-> "idle"]

\* isValidISODate(date): false when the pattern rejects the string; a
\* RangeError when new Date() is invalid (toISOString throws); otherwise
\* whether the date new Date() made is the date that was written
isValidISODate(date) ==
    IF ~MatchesDatePattern(date) THEN "false"
    ELSE IF ParseLocalDate(date).nan THEN "throws"
    ELSE IF ParseLocalDate(date) =
            [nan |-> FALSE, y |-> date.y, m |-> date.m, d |-> date.d]
    THEN "true"
    ELSE "false"

\* the handler up to the call of the API
PriceSolHandle(date) ==
    /\ UNCHANGED <<postVars, liveVars, page>>
    /\ LET cache == readPricesCache(pricesFile)
       IN  IF isValidISODate(date) = "false"
           THEN /\ resp' = [op |-> PriceOp, date |-> date, status |-> 400,
                            error |-> "Invalid date format"]
                /\ UNCHANGED priceReq
           ELSE IF isValidISODate(date) = "throws" \/ CacheThrows(cache)
           THEN /\ resp' = [op |-> PriceOp, date |-> date, status |-> 500,
                            error |-> "Internal server error"]
                /\ UNCHANGED priceReq
           ELSE IF CacheHit(cache, date)
           THEN /\ resp' = [op |-> PriceOp, date |-> date, status |-> 200,
                            body |-> [symbol |-> "SOL", date |-> date,
                                      priceUSD |-> cache.sol[date],
                                      source |-> "cache"]]
                /\ UNCHANGED priceReq
           ELSE /\ priceReq' = [pc |-> "fetch", date |-> date, cache |-> cache.sol]
                /\ resp' = [op |-> PriceOp, date |-> date, status |-> 0]
    /\ UNCHANGED <<revision, txFile, settingsFile, pricesFile, categoriesFile,
                   assets, nextId, dash>>

PriceSolStart(date) == Tracker /\ PriceSolHandle(date)

\* the handler from the API's answer: the price is put into the cache that
\* was read and the whole cache is written
PriceSolFetch(outcome) ==
    /\ UNCHANGED <<postVars, liveVars, page>>
    /\ revision = "tracker"
    /\ priceReq.pc = "fetch"
    /\ priceReq' = PriceIdle
    /\ IF outcome.ok
       THEN /\ pricesFile' = PricesCache(MapPut(priceReq.cache, priceReq.date,
                                                outcome.price))
            /\ resp' = [op |-> PriceOp, date |-> priceReq.date, status |-> 200,
                        body |-> [symbol |-> "SOL", date |-> priceReq.date,
                                  priceUSD |-> outcome.price, source |-> "api"]]
       ELSE /\ UNCHANGED pricesFile
            /\ resp' = [op |-> PriceOp, date |-> priceReq.date, status |-> 502,
                        error |-> "External API error"]
    /\ UNCHANGED <<revision, txFile, settingsFile, categoriesFile, assets,
                   nextId, dash>>

-----------------------------------------------------------------------------
(* GET /api/settings *)

SettingsOp == "GET /api/settings"

GetSettings ==
    /\ UNCHANGED <<postVars, liveVars, page>>
    /\ Tracker
    /\ settingsFile' = readSettings(settingsFile).file
    /\ resp' = [op |-> SettingsOp, status |-> 200,
                body |-> readSettings(settingsFile).settings]
    /\ UNCHANGED <<revision, txFile, pricesFile, categoriesFile, assets, nextId,
                   dash, priceReq>>

-----------------------------------------------------------------------------
(* GET /api/categories *)

CategoriesOp == "GET /api/categories"

Others == <<"O","t","h","e","r","s">>

\* categories.json: text JSON.parse rejects, the JSON null, or an object
\* whose "categories" member is an array of strings or anything else
CategoriesUnparsable == [kind |-> "unparsable"]
CategoriesNull == [kind |-> "null"]
CategoriesNoList == [kind |-> "nolist"]
CategoriesList(list) == [kind |-> "list", list |-> list]

\* the file ensureCategoriesFile writes
InitialCategories ==
    <<<<"G","y","m","n","a","s","t","i","c">>,
      <<"A","T","&","T">>,
      <<"A","f","f","i","r","m">>,
      <<"S","t","a","t","e"," ","F","a","r","m">>,
      <<"O","p","t","i","m","u","m">>,
      <<"W","a","t","e","r"," ","U","t","i","l","i","t","y">>,
      <<"G","r","o","c","e","r","y">>,
      Others>>

\* list.includes(x)
Includes(list, x) == \E i \in 1..Len(list) : list[i] = x

\* readCategories(): data.categories when it is an array, with 'Others'
\* pushed when it is not in it; ["Others"] when the file cannot be parsed
\* or is null
readCategories(file) ==
    IF file.kind \in {"unparsable", "null"} THEN <<Others>>
    ELSE LET list == IF file.kind = "list" THEN file.list ELSE <<>>
         IN  IF Includes(list, Others) THEN list ELSE Append(list, Others)

GetCategories ==
    /\ UNCHANGED <<postVars, liveVars, page>>
    /\ Tracker
    /\ resp' = [op |-> CategoriesOp, status |-> 200,
                body |-> [categories |-> readCategories(categoriesFile)]]
    /\ UNCHANGED <<revision, txFile, settingsFile, pricesFile, categoriesFile,
                   assets, nextId, dash, priceReq>>

-----------------------------------------------------------------------------
(* POST /api/categories and DELETE /api/categories/:name *)

PostCategoryOp == "POST /api/categories"
DeleteCategoryOp == "DELETE /api/categories/:name"

\* categories.findIndex(c => c.toLowerCase() === name.toLowerCase()), counted
\* from 1, 0 for -1
findCategory(categories, name) ==
    LET hits == {i \in 1..Len(categories) :
                    toLowerCase(categories[i]) = toLowerCase(name)}
    IN  IF hits = {} THEN 0 ELSE CHOOSE i \in hits : \A j \in hits : i <= j

\* the name is compared as it is written
inUseAsWritten(transactions, name) ==
    \E i \in 1..Len(transactions) : transactions[i].category = name

\* transactions.some(t => (t.category || '').toLowerCase()
\*                            === name.toLowerCase())
inUse(transactions, name) ==
    \E i \in 1..Len(transactions) :
        toLowerCase(transactions[i].category) = toLowerCase(name)

\* writeCategories(list): the file is replaced by { categories: list }
writeCategories(list) == CategoriesList(list)

PostCategory(name) ==
    /\ UNCHANGED <<postVars, liveVars, page>>
    /\ Tracker
    /\ IF name.t # "string" \/ name.s = <<>>
       THEN /\ resp' = [op |-> PostCategoryOp, name |-> name, status |-> 400,
                        error |-> "name is required and must be a string"]
            /\ UNCHANGED categoriesFile
       ELSE IF Trim(name.s) = <<>>
       THEN /\ resp' = [op |-> PostCategoryOp, name |-> name, status |-> 400,
                        error |-> "name must be a non-empty string"]
            /\ UNCHANGED categoriesFile
       ELSE LET categories == readCategories(categoriesFile)
            IN  IF findCategory(categories, Trim(name.s)) # 0
                THEN /\ resp' = [op |-> PostCategoryOp, name |-> name,
                                 status |-> 409,
                                 error |-> "Category already exists"]
                     /\ UNCHANGED categoriesFile
                ELSE /\ categoriesFile' =
                            writeCategories(Append(categories, Trim(name.s)))
                     /\ resp' = [op |-> PostCategoryOp, name |-> name,
                                 status |-> 200,
                                 body |-> [categories |->
                                              Append(categories, Trim(name.s))]]
    /\ UNCHANGED <<revision, txFile, settingsFile, pricesFile, assets, nextId,
                   dash, priceReq>>

\* raw is req.params.name; decodeURIComponent leaves a name without a
\* percent sign as it is
DeleteCategory(raw) ==
    /\ UNCHANGED <<postVars, liveVars, page>>
    /\ Tracker
    /\ LET name == Trim(raw)
           categories == readCategories(categoriesFile)
           idx == findCategory(categories, name)
       IN  IF name = <<>>
           THEN /\ resp' = [op |-> DeleteCategoryOp, name |-> raw,
                            status |-> 400, error |-> "Invalid category name"]
                /\ UNCHANGED categoriesFile
           ELSE IF toLowerCase(name) = toLowerCase(Others)
           THEN /\ resp' = [op |-> DeleteCategoryOp, name |-> raw,
                            status |-> 400, error |-> "Cannot delete Others"]
                /\ UNCHANGED categoriesFile
           ELSE IF idx = 0
           THEN /\ resp' = [op |-> DeleteCategoryOp, name |-> raw,
                            status |-> 404, error |-> "Category not found"]
                /\ UNCHANGED categoriesFile
           ELSE IF txFile.kind # "array"
           THEN \* JSON.parse throws, or some is no function of the value
                /\ resp' = [op |-> DeleteCategoryOp, name |-> raw,
                            status |-> 500,
                            error |-> "Failed to verify category usage"]
                /\ UNCHANGED categoriesFile
           ELSE IF inUse(txFile.list, name)
           THEN /\ resp' = [op |-> DeleteCategoryOp, name |-> raw,
                            status |-> 409, error |-> "Category is in use",
                            category |-> name]
                /\ UNCHANGED categoriesFile
           ELSE /\ categoriesFile' = writeCategories(splice(categories, idx))
                /\ resp' = [op |-> DeleteCategoryOp, name |-> raw,
                            status |-> 200,
                            body |-> [categories |-> splice(categories, idx)]]
    /\ UNCHANGED <<revision, txFile, settingsFile, pricesFile, assets, nextId,
                   dash, priceReq>>

-----------------------------------------------------------------------------
(* GET /api/export/transactions.csv and transactions.json *)

ExportCsvOp == "GET /api/export/transactions.csv"
ExportJsonOp == "GET /api/export/transactions.json"

\* the rows of the CSV: id, date, description, amount
csvRows(list) ==
    [i \in 1..Len(list) |->
        <<list[i].id, list[i].date, list[i].description, list[i].amount>>]

\* the inner catch leaves [] when the file cannot be parsed; a parsed value
\* that is no array has no map function and the outer catch answers 500
ExportCsv ==
    /\ UNCHANGED <<postVars, liveVars, page>>
    /\ Tracker
    /\ IF txFile.kind = "notarray"
       THEN resp' = [op |-> ExportCsvOp, status |-> 500,
                     error |-> "Failed to export transactions"]
       ELSE resp' = [op |-> ExportCsvOp, status |-> 200,
                     body |-> csvRows(IF txFile.kind = "array" THEN txFile.list
                                      ELSE <<>>)]
    /\ UNCHANGED <<revision, txFile, settingsFile, pricesFile, categoriesFile,
                   assets, nextId, dash, priceReq>>

\* fileContent is assigned the text read before JSON.parse checks it, so
\* the text of the file is what is sent, parsable or not
ExportJson ==
    /\ UNCHANGED <<postVars, liveVars, page>>
    /\ Tracker
    /\ resp' = [op |-> ExportJsonOp, status |-> 200, body |-> txFile]
    /\ UNCHANGED <<revision, txFile, settingsFile, pricesFile, categoriesFile,
                   assets, nextId, dash, priceReq>>

-----------------------------------------------------------------------------
(* The earlier revision of the server: POST /api/purchase *)

PurchaseOp == "POST /api/purchase"

Alnum ==
    {"a","b","c","d","e","f","g","h","i","j","k","l","m","n","o","p","q","r",
     "s","t","u","v","w","x","y","z","A","B","C","D","E","F","G","H","I","J",
     "K","L","M","N","O","P","Q","R","S","T","U","V","W","X","Y","Z","0","1",
     "2","3","4","5","6","7","8","9"}

\* every character is kept
RemoveNothing(s) == s

\* replace(/[^a-zA-Z0-9\s_-]/g, '')
RECURSIVE RemoveInvalid(_)
RemoveInvalid(s) ==
    IF s = <<>> THEN <<>>
    ELSE IF Head(s) \in Alnum \cup {Space, "_", "-"}
    THEN <<Head(s)>> \o RemoveInvalid(Tail(s))
    ELSE RemoveInvalid(Tail(s))

\* replace(/\s+/g, '_')
RECURSIVE SpacesToUnderscore(_)
SpacesToUnderscore(s) ==
    IF s = <<>> THEN <<>>
    ELSE IF Head(s) = Space
    THEN <<"_">> \o SpacesToUnderscore(TrimLeft(s))
    ELSE <<Head(s)>> \o SpacesToUnderscore(Tail(s))

\* replace(/^[_-]+|[_-]+$/g, '')
RECURSIVE StripEdges(_)
StripEdges(s) ==
    IF s # <<>> /\ Head(s) \in {"_", "-"} THEN StripEdges(Tail(s))
    ELSE IF s # <<>> /\ s[Len(s)] \in {"_", "-"}
    THEN StripEdges(SubSeq(s, 1, Len(s) - 1))
    ELSE s

Unknown == <<"U","n","k","n","o","w","n">>

sanitizePaymentType(paymentType) ==
    LET sanitized == StripEdges(SpacesToUnderscore(RemoveInvalid(Trim(paymentType))))
    IN  IF sanitized = <<>> THEN Unknown ELSE sanitized

MonthNumbers == 1..12

\* initializeYearData(paymentType, year): twelve empty months
initializeYearData(paymentType, year) ==
    [paymentType |-> paymentType,
     year |-> year,
     months |-> [m \in MonthNumbers |->
                   [totalAmount |-> 0, totalCashback |-> 0, transactions |-> <<>>]]]

\* Math.round(amount * 0.03 * 100) / 100, in mills
purchaseCashback(amount) == 10 * MathRound(amount * 3, 1000)

\* a year file: absent from the map, text JSON.parse rejects, or year data
AssetUnparsable == [kind |-> "unparsable"]
AssetData(data) == [kind |-> "data", data |-> data]

\* the month record after the purchase is added
updateMonth(month, purchaseDate, amount) ==
    [totalAmount |-> moneyRound(month.totalAmount + amount),
     totalCashback |-> moneyRound(month.totalCashback + purchaseCashback(amount)),
     transactions |-> Append(month.transactions,
                             [date |-> purchaseDate, amount |-> amount,
                              cashback |-> purchaseCashback(amount)])]

Purchase(body) ==
    /\ UNCHANGED <<postVars, liveVars, page>>
    /\ revision = "purchase"
    /\ IF DescriptionInvalid(body.paymentType)
       THEN /\ resp' = [op |-> PurchaseOp, req |-> body, status |-> 400,
                        error |-> "paymentType is required and must be a non-empty string"]
            /\ UNCHANGED assets
       ELSE IF AmountInvalid(body.amount)
       THEN /\ resp' = [op |-> PurchaseOp, req |-> body, status |-> 400,
                        error |-> "amount must be a positive number"]
            /\ UNCHANGED assets
       ELSE LET purchaseDate == IF DatePatternInvalid(body.date) THEN Today
                                ELSE body.date
                dateObj == ParseLocalDate(purchaseDate)
                sanitized == sanitizePaymentType(body.paymentType.s)
                file == <<sanitized, dateObj.y>>
            IN  IF dateObj.nan
                THEN /\ resp' = [op |-> PurchaseOp, req |-> body, status |-> 400,
                                 error |-> "Invalid date format. Expected YYYY-MM-DD"]
                     /\ UNCHANGED assets
                ELSE IF file \in DOMAIN assets /\ assets[file].kind = "unparsable"
                THEN /\ resp' = [op |-> PurchaseOp, req |-> body, status |-> 500,
                                 error |-> "Failed to save purchase"]
                     /\ UNCHANGED assets
                ELSE LET yearData == IF file \in DOMAIN assets
                                     THEN assets[file].data
                                     ELSE initializeYearData(sanitized, dateObj.y)
                         month == updateMonth(yearData.months[dateObj.m],
                                              purchaseDate, body.amount.v)
                     IN  /\ assets' = MapPut(assets, file,
                                AssetData([yearData EXCEPT
                                              !.months[dateObj.m] = month]))
                         /\ resp' = [op |-> PurchaseOp, req |-> body,
                                     status |-> 200,
                                     body |-> [month |-> getMonthName(dateObj.m),
                                               year |-> dateObj.y,
                                               paymentType |-> sanitized,
                                               monthTotals |->
                                                 [totalAmount |-> month.totalAmount,
                                                  totalCashback |-> month.totalCashback,
                                                  transactionCount |->
                                                      Len(month.transactions)]]]
    /\ UNCHANGED <<revision, txFile, settingsFile, pricesFile, categoriesFile,
                   nextId, dash, priceReq>>

\* the number of purchases stored in the year files
RECURSIVE CountPurchases(_)
CountPurchases(files) ==
    IF files = {} THEN 0
    ELSE LET f == CHOOSE x \in files : TRUE
             n == IF assets[f].kind # "data" THEN 0
                  ELSE LET ms == assets[f].data.months
                           RECURSIVE Sum(_)
                           Sum(m) == IF m = 0 THEN 0
                                     ELSE Len(ms[m].transactions) + Sum(m - 1)
                       IN  Sum(12)
         IN  n + CountPurchases(files \ {f})

-----------------------------------------------------------------------------
(* Price lookups side by side.  A handler is suspended at every await, so  *)
(* a GET /api/price/sol and a GET /api/dashboard can be in flight at the   *)
(* same time, each between its read of prices.json, the answer of the API  *)
(* and its write of prices.json.  writePricesCache calls fs.writeFile on   *)
(* prices.json itself: the write is two steps, truncate and fill.          *)

PriceSolArrive(date) ==
    /\ revision = "tracker"
    /\ priceReq.pc = "idle"
    /\ PriceSolHandle(date)

DashArrive(qyear, qmonth) ==
    /\ revision = "tracker"
    /\ dash.pc = "idle"
    /\ DashHandle(qyear, qmonth)

\* the entries prices.json holds, or held when its rewrite began
WrittenEntries(file) ==
    IF file.kind = "cache" THEN file.sol
    ELSE IF file.kind = "partial" THEN file.was
    ELSE EmptyMap

\* /api/price/sol from the API's answer to the opening of prices.json
PriceSolFetched(outcome) ==
    /\ UNCHANGED <<postVars, liveVars, page>>
    /\ revision = "tracker"
    /\ priceReq.pc = "fetch"
    /\ IF outcome.ok
       THEN /\ priceReq' = [priceReq EXCEPT
                               !.pc = "write",
                               !.cache = MapPut(priceReq.cache, priceReq.date,
                                                outcome.price)]
            /\ pricesFile' = PricesPartial(WrittenEntries(pricesFile))
            /\ UNCHANGED resp
       ELSE /\ priceReq' = PriceIdle
            /\ UNCHANGED pricesFile
            /\ resp' = [op |-> PriceOp, date |-> priceReq.date, status |-> 502,
                        error |-> "External API error"]
    /\ UNCHANGED <<revision, txFile, settingsFile, categoriesFile, assets,
                   nextId, dash>>

\* /api/price/sol from the end of the write to the response
PriceSolWritten ==
    /\ UNCHANGED <<postVars, liveVars, page>>
    /\ revision = "tracker"
    /\ priceReq.pc = "write"
    /\ pricesFile' = PricesCache(priceReq.cache)
    /\ priceReq' = PriceIdle
    /\ resp' = [op |-> PriceOp, date |-> priceReq.date, status |-> 200,
                body |-> [symbol |-> "SOL", date |-> priceReq.date,
                          priceUSD |-> priceReq.cache[priceReq.date],
                          source |-> "api"]]
    /\ UNCHANGED <<revision, txFile, settingsFile, categoriesFile, assets,
                   nextId, dash>>

\* getSolPriceForDate in the dashboard, from the API's answer to the opening
\* of prices.json
DashFetched(outcome) ==
    /\ UNCHANGED <<postVars, liveVars, page>>
    /\ revision = "tracker"
    /\ dash.pc = "fetch"
    /\ IF outcome.ok
       THEN /\ dash' = [dash EXCEPT
                           !.pc = "write",
                           !.cache = MapPut(dash.cache, LookupDate(dash),
                                            outcome.price)]
            /\ pricesFile' = PricesPartial(WrittenEntries(pricesFile))
            /\ UNCHANGED resp
       ELSE /\ UNCHANGED pricesFile
            /\ DashContinue(dash, JsNull)
    /\ UNCHANGED <<revision, txFile, settingsFile, categoriesFile, assets,
                   nextId, priceReq>>

\* getSolPriceForDate in the dashboard, from the end of the write on
DashWritten ==
    /\ UNCHANGED <<postVars, liveVars, page>>
    /\ revision = "tracker"
    /\ dash.pc = "write"
    /\ pricesFile' = PricesCache(dash.cache)
    /\ DashContinue(dash, JsNum(dash.cache[LookupDate(dash)]))
    /\ UNCHANGED <<revision, txFile, settingsFile, categoriesFile, assets,
                   nextId, priceReq>>

-----------------------------------------------------------------------------
(* POST /api/transactions side by side *)

\* posts: the requests suspended between their read of transactions.json
\* and their answer, each with the list it read and the transaction it
\* made, and (no state of the program) the ids answered 201
NoPosts == [requests |-> <<>>, created |-> {}]

\* transactions.json.tmp: no such file, or a list
TempAbsent == [kind |-> "absent"]
TempList(list) == [kind |-> "list", list |-> list]

\* the message of the 400 a body is answered with, "" for a valid body
validationError(body) ==
    IF DescriptionInvalid(body.description)
    THEN "description is required and must be a non-empty string"
    ELSE IF AmountInvalid(body.amount) THEN "amount must be a positive number"
    ELSE IF DatePatternInvalid(body.date)
    THEN "date is required and must be in YYYY-MM-DD format"
    ELSE IF DateInvalid(body.date) THEN "Invalid date format"
    ELSE ""

\* nothing is pushed
pushNothing(transactions, transaction) == transactions

\* transactions.push(newTransaction)
push(transactions, transaction) == Append(transactions, transaction)

\* the handler up to fs.writeFile(tempFile, ...): validation, the read of
\* the file, the new transaction pushed onto the list that was read
PostRead(body) ==
    /\ revision = "tracker"
    /\ Len(posts.requests) < MaxPosts
    /\ IF validationError(body) # ""
       THEN /\ resp' = [op |-> PostOp, req |-> body, status |-> 400,
                        error |-> validationError(body)]
            /\ UNCHANGED <<posts, nextId>>
       ELSE IF txFile.kind # "array"
       THEN /\ resp' = [op |-> PostOp, req |-> body, status |-> 500,
                        error |-> "Failed to create transaction"]
            /\ UNCHANGED <<posts, nextId>>
       ELSE /\ posts' = [posts EXCEPT
                            !.requests = Append(@,
                                [pc |-> "write", body |-> body,
                                 read |-> txFile.list,
                                 transactions |-> push(txFile.list,
                                                       newTransaction(body))])]
            /\ nextId' = nextId + 1
            /\ resp' = [op |-> PostOp, req |-> body, status |-> 0]
    /\ UNCHANGED <<revision, txFile, settingsFile, pricesFile, categoriesFile,
                   assets, dash, priceReq, txTemp, liveVars, page>>

\* await fs.writeFile(tempFile, JSON.stringify(transactions)): every request
\* writes the same temporary file
PostWriteTemp(i) ==
    /\ revision = "tracker"
    /\ i \in 1..Len(posts.requests)
    /\ posts.requests[i].pc = "write"
    /\ txTemp' = TempList(posts.requests[i].transactions)
    /\ posts' = [posts EXCEPT !.requests[i].pc = "rename"]
    /\ UNCHANGED <<revision, txFile, settingsFile, pricesFile, categoriesFile,
                   assets, nextId, dash, priceReq, liveVars, page, resp>>

\* await fs.rename(tempFile, TRANSACTIONS_FILE) and the answer: 201 with the
\* new transaction; when another request has renamed the temporary file
\* away, rename fails and the catch answers 500
PostRename(i) ==
    /\ revision = "tracker"
    /\ i \in 1..Len(posts.requests)
    /\ posts.requests[i].pc = "rename"
    /\ LET req == posts.requests[i]
           transaction == req.transactions[Len(req.transactions)]
       IN  IF txTemp.kind = "absent"
           THEN /\ resp' = [op |-> PostOp, req |-> req.body, status |-> 500,
                            error |-> "Failed to create transaction"]
                /\ posts' = [posts EXCEPT !.requests = RemoveAt(@, i)]
                /\ UNCHANGED <<txFile, txTemp>>
           ELSE /\ txFile' = TxArray(txTemp.list)
                /\ txTemp' = TempAbsent
                /\ resp' = [op |-> PostOp, req |-> req.body, status |-> 201,
                            body |-> transaction]
                /\ posts' = [requests |-> RemoveAt(posts.requests, i),
                             created |-> posts.created \cup {transaction.id}]
    /\ UNCHANGED <<revision, settingsFile, pricesFile, categoriesFile,
                   assets, nextId, dash, priceReq, liveVars, page>>

-----------------------------------------------------------------------------
(* GET /api/price/sol/live *)

LiveOp == "GET /api/price/sol/live"

\* let livePriceCache = { price: null, timestamp: null }
LiveCacheEmpty == [price |-> JsNull, timestamp |-> JsNull]

\* liveReq: the requests suspended on the API, each with the Date.now() it
\* took, and (no state of the program) the last price the API gave with
\* the time it arrived
NoLiveRequests == [requests |-> <<>>, fetched |-> <<>>]

\* const cacheTTL = 15 * 60 * 1000, in minutes
cacheTTL == 15

\* livePriceCache.price && (now - livePriceCache.timestamp) < cacheTTL
LiveFresh(cache, time) ==
    /\ cache.price.t = "number"
    /\ cache.price.v # 0
    /\ time - cache.timestamp.v < cacheTTL

\* the handler up to the call of the API
LiveArrive ==
    /\ revision = "tracker"
    /\ IF LiveFresh(livePriceCache, now)
       THEN /\ resp' = [op |-> LiveOp, status |-> 200, at |-> now,
                        fetched |-> FALSE,
                        body |-> [symbol |-> "SOL",
                                  priceUSD |-> livePriceCache.price.v,
                                  asOf |-> livePriceCache.timestamp.v,
                                  source |-> "cache"]]
            /\ UNCHANGED liveReq
       ELSE /\ Len(liveReq.requests) < MaxLive
            /\ liveReq' = [liveReq EXCEPT
                              !.requests = Append(@, [now |-> now])]
            /\ resp' = [op |-> LiveOp, status |-> 0, at |-> now]
    /\ UNCHANGED <<revision, txFile, settingsFile, pricesFile, categoriesFile,
                   assets, nextId, dash, priceReq, postVars, page, livePriceCache, now>>

\* the handler of the i-th suspended request from the API's answer: the
\* price is cached with the time the request took when it arrived; a failure
\* is answered with the cached price as 'stale-cache', or 502 when
\* !livePriceCache.price
LiveFetched(i, outcome) ==
    /\ revision = "tracker"
    /\ i \in 1..Len(liveReq.requests)
    /\ LET req == liveReq.requests[i]
       IN  IF outcome.ok
           THEN /\ livePriceCache' = [price |-> JsNum(outcome.price),
                                      timestamp |-> JsNum(req.now)]
                /\ liveReq' = [requests |-> RemoveAt(liveReq.requests, i),
                               fetched |-> <<[price |-> outcome.price,
                                              at |-> now]>>]
                /\ resp' = [op |-> LiveOp, status |-> 200, at |-> req.now,
                            fetched |-> TRUE, failed |-> FALSE,
                            body |-> [symbol |-> "SOL",
                                      priceUSD |-> outcome.price,
                                      asOf |-> req.now, source |-> "api"]]
           ELSE /\ UNCHANGED livePriceCache
                /\ liveReq' = [liveReq EXCEPT
                                  !.requests = RemoveAt(@, i)]
                /\ IF livePriceCache.price.t = "number"
                      /\ livePriceCache.price.v # 0
                   THEN resp' = [op |-> LiveOp, status |-> 200, at |-> req.now,
                                 fetched |-> TRUE, failed |-> TRUE,
                                 body |-> [symbol |-> "SOL",
                                           priceUSD |-> livePriceCache.price.v,
                                           asOf |-> livePriceCache.timestamp.v,
                                           source |-> "stale-cache"]]
                   ELSE resp' = [op |-> LiveOp, status |-> 502, at |-> req.now,
                                 fetched |-> TRUE, failed |-> TRUE,
                                 error |-> "External API error"]
    /\ UNCHANGED <<revision, txFile, settingsFile, pricesFile, categoriesFile,
                   assets, nextId, dash, priceReq, postVars, page, now>>

\* minutes that pass between two steps of the handlers
Waits == {5, 15}

Tick(minutes) ==
    /\ now + minutes <= MaxNow
    /\ now' = now + minutes
    /\ UNCHANGED <<revision, txFile, settingsFile, pricesFile, categoriesFile,
                   assets, nextId, dash, priceReq, postVars, page, livePriceCache,
                   liveReq, resp>>

-----------------------------------------------------------------------------
(* The page in the browser (src/unnamed/part_002).  A panel shows its      *)
(* loading state, its error state, or the data of one response, named here *)
(* by the label the response carries.  A fetch in flight is the panel it    *)
(* will render into and the year and month written into its URL when it    *)
(* was started.                                                            *)

Loading == [t |-> "loading"]
ErrorShown == [t |-> "error"]
Shown(label) == [t |-> "data", label |-> label]

\* the label of the server's answer for a year and a month
periodLabel(year, month) == <<getMonthName(month), year>>

\* the page before its script has started anything
NoPage ==
    [selectedPeriod |-> [year |-> Today.y, month |-> Today.m],
     fetches |-> <<>>, monthly |-> Loading, dashboard |-> Loading]

\* up to its await: the loading state, and the URL from the period's fields
loadMonthly(p, period) ==
    [p EXCEPT !.monthly = Loading,
              !.fetches = Append(@, [panel |-> "monthly", year |-> period.year,
                                     month |-> period.month])]

loadDashboard(p, period) ==
    [p EXCEPT !.dashboard = Loading,
              !.fetches = Append(@, [panel |-> "dashboard",
                                     year |-> period.year,
                                     month |-> period.month])]

refreshForSelectedPeriod(p) ==
    loadDashboard(loadMonthly(p, p.selectedPeriod), p.selectedPeriod)

\* after the await: the response is rendered, or the error state is shown
renderData(p, fetch) ==
    IF fetch.panel = "monthly"
    THEN [p EXCEPT !.monthly = Shown(periodLabel(fetch.year, fetch.month))]
    ELSE [p EXCEPT !.dashboard = Shown(periodLabel(fetch.year, fetch.month))]

renderError(p, fetch) ==
    IF fetch.panel = "monthly"
    THEN [p EXCEPT !.monthly = ErrorShown]
    ELSE [p EXCEPT !.dashboard = ErrorShown]

withoutFetch(p, i) == [p EXCEPT !.fetches = RemoveAt(@, i)]

pageFrame ==
    UNCHANGED <<revision, txFile, settingsFile, pricesFile, categoriesFile,
                assets, nextId, dash, priceReq, posts, txTemp, livePriceCache,
                liveReq, now, resp>>

\* the change listener of the month selector
ChangeMonth(month) ==
    /\ month # page.selectedPeriod.month
    /\ Len(page.fetches) + 2 <= MaxFetches
    /\ page' = refreshForSelectedPeriod(
                   [page EXCEPT !.selectedPeriod.month = month])
    /\ pageFrame

\* the change listener of the year selector
ChangeYear(year) ==
    /\ year # page.selectedPeriod.year
    /\ Len(page.fetches) + 2 <= MaxFetches
    /\ page' = refreshForSelectedPeriod(
                   [page EXCEPT !.selectedPeriod.year = year])
    /\ pageFrame

\* fetch i is answered 200 with the data of the period in its URL
FetchAnswered(i) ==
    /\ i \in 1..Len(page.fetches)
    /\ page' = renderData(withoutFetch(page, i), page.fetches[i])
    /\ pageFrame

\* fetch i rejects, or its response is not ok
FetchFailed(i) ==
    /\ i \in 1..Len(page.fetches)
    /\ page' = renderError(withoutFetch(page, i), page.fetches[i])
    /\ pageFrame

-----------------------------------------------------------------------------
(* Inputs *)

Jan03 == DateStr(2026, 1, 3)
Feb30 == DateStr(2026, 2, 30)

Gym == <<"G", "y", "m">>
Food == <<"F", "o", "o", "d">>

\* the base body: 100 dollars at the gym on 2026-01-03, no category
BaseBody ==
    [date |-> Jan03, description |-> JsStr(<<Space>> \o Gym \o <<Space>>),
     category |-> JsUndefined, amount |-> JsNum(100000)]

\* bodies that pass the validation: half a cent in category Food, half a
\* cent with a blank category, 100 dollars dated the 30th of February
ValidBodies ==
    {BaseBody,
     [BaseBody EXCEPT !.category = JsStr(Food \o <<Space>>), !.amount = JsNum(5)],
     [BaseBody EXCEPT !.category = JsStr(<<Space>>), !.amount = JsNum(5)],
     [BaseBody EXCEPT !.date = Feb30]}

InvalidDescriptions == {JsStr(<<Space, Space>>), JsStr(<<>>), JsUndefined, JsNum(7)}
InvalidAmounts == {JsNum(0), JsNum(-1000), JsNaN, JsStr(<<"1">>), JsUndefined}
InvalidDates == {DateStr(2026, 13, 1), JsUndefined, [t |-> "badpattern"]}

\* the base body with one field replaced by each value the validation
\* rejects, and one body with every field rejected
InvalidBodies ==
    {[BaseBody EXCEPT !.description = x] : x \in InvalidDescriptions}
    \cup {[BaseBody EXCEPT !.amount = x] : x \in InvalidAmounts}
    \cup {[BaseBody EXCEPT !.date = x] : x \in InvalidDates}
    \cup {[date |-> JsUndefined, description |-> JsUndefined,
           category |-> JsUndefined, amount |-> JsUndefined]}

Bodies == ValidBodies \cup InvalidBodies

QueryYears == {QAbsent, QInt(2026), QText}
QueryMonths == {QAbsent, QInt(1), QInt(2), QInt(3), QInt(0), QInt(13)}

InitSettingsFiles ==
    {SettingsObject(JsNum(300), JsNum(473)),
     SettingsObject(JsNum(10000), JsStr(<<"x">>)),
     SettingsObject(JsUndefined, JsUndefined),
     SettingsNull,
     SettingsUnparsable}

InitTxFiles == {TxArray(<<>>), TxUnparsable, TxNotArray}

InitPricesFiles ==
    {PricesCache(EmptyMap), PricesUnparsable, PricesNull, PricesNoSol}

InitCategoriesFiles ==
    {CategoriesList(InitialCategories), CategoriesList(<<Food>>),
     CategoriesNoList, CategoriesNull, CategoriesUnparsable}

\* what the price API answers: an error, 0, or 150 dollars
ApiOutcomes == {ApiFail, ApiPrice(0), ApiPrice(15000)}

PriceDates == {Jan03, Feb30, DateStr(2026, 13, 1), JsUndefined}

V == <<"V">>

PurchaseBodies ==
    [paymentType : {JsStr(V), JsStr(<<Space, ".", ".", "/", "V", Space, "-">>),
                    JsStr(<<Space>>), JsUndefined},
     amount : {JsNum(5), JsNum(100000), JsNum(0)},
     date : {Jan03, Feb30, DateStr(2026, 13, 1), JsUndefined}]

-----------------------------------------------------------------------------
(* The transaction store: every request on the transactions file, for each *)
(* content the files may have when the server starts                       *)

Init ==
    /\ revision = "tracker"
    /\ txFile \in InitTxFiles
    /\ settingsFile \in InitSettingsFiles
    /\ pricesFile = PricesCache(EmptyMap)
    /\ categoriesFile = CategoriesList(InitialCategories)
    /\ assets = EmptyMap
    /\ nextId = 1
    /\ dash = DashIdle
    /\ priceReq = PriceIdle
    /\ posts = NoPosts
    /\ txTemp = TempAbsent
    /\ livePriceCache = LiveCacheEmpty
    /\ liveReq = NoLiveRequests
    /\ now = 0
    /\ page = NoPage
    /\ resp = [op |-> "none"]

Next ==
    \/ \E body \in Bodies :
          /\ PostAccepted(body) => (Len(txFile.list) < MaxTx /\ nextId <= MaxId)
          /\ PostTransaction(body)
    \/ \E id \in 1..MaxId : DeleteTransaction(id)
    \/ \E qyear \in QueryYears, qmonth \in QueryMonths : GetMonthly(qyear, qmonth)
    \/ ExportCsv
    \/ ExportJson

Spec == Init /\ [][Next]_vars

-----------------------------------------------------------------------------
(* The whole API, requests handled one at a time: either revision of the   *)
(* server, started on files of which at most one is not what the server    *)
(* itself writes                                                           *)

DefaultSettingsFile == SettingsObject(JsNum(300), JsNum(473))

\* 100 dollars in January, 100 dollars dated the 30th of February, half a
\* cent in January; and a body rejected for each field
ApiBodies ==
    {BaseBody,
     [BaseBody EXCEPT !.date = Feb30],
     [BaseBody EXCEPT !.category = JsStr(Food \o <<Space>>), !.amount = JsNum(5)],
     [BaseBody EXCEPT !.description = JsUndefined],
     [BaseBody EXCEPT !.amount = JsNum(0)],
     [BaseBody EXCEPT !.date = DateStr(2026, 13, 1)]}

\* (year, month) of a query: the current month, January and March 2026, and
\* a year and two months outside the ranges
ApiQueries ==
    {<<QAbsent, QAbsent>>, <<QInt(2026), QInt(1)>>, <<QAbsent, QInt(3)>>,
     <<QText, QAbsent>>, <<QAbsent, QInt(0)>>, <<QInt(2026), QInt(13)>>}

InitApi ==
    /\ revision \in {"tracker", "purchase"}
    /\ \/ /\ txFile \in InitTxFiles
          /\ settingsFile = DefaultSettingsFile
          /\ pricesFile = PricesCache(EmptyMap)
          /\ categoriesFile = CategoriesList(InitialCategories)
       \/ /\ txFile = TxArray(<<>>)
          /\ settingsFile \in InitSettingsFiles
          /\ pricesFile = PricesCache(EmptyMap)
          /\ categoriesFile = CategoriesList(InitialCategories)
       \/ /\ txFile = TxArray(<<>>)
          /\ settingsFile = DefaultSettingsFile
          /\ pricesFile \in InitPricesFiles
          /\ categoriesFile = CategoriesList(InitialCategories)
       \/ /\ txFile = TxArray(<<>>)
          /\ settingsFile = DefaultSettingsFile
          /\ pricesFile = PricesCache(EmptyMap)
          /\ categoriesFile \in InitCategoriesFiles
    /\ revision = "purchase" =>
          /\ txFile = TxArray(<<>>)
          /\ settingsFile = DefaultSettingsFile
          /\ pricesFile = PricesCache(EmptyMap)
          /\ categoriesFile = CategoriesList(InitialCategories)
    /\ assets = EmptyMap
    /\ nextId = 1
    /\ dash = DashIdle
    /\ priceReq = PriceIdle
    /\ posts = NoPosts
    /\ txTemp = TempAbsent
    /\ livePriceCache = LiveCacheEmpty
    /\ liveReq = NoLiveRequests
    /\ now = 0
    /\ page = NoPage
    /\ resp = [op |-> "none"]

NextApi ==
    \/ \E body \in ApiBodies :
          /\ PostAccepted(body) => (Len(txFile.list) < MaxApiTx /\ nextId <= MaxApiTx)
          /\ PostTransaction(body)
    \/ \E id \in 1..MaxApiTx : DeleteTransaction(id)
    \/ \E q \in ApiQueries : GetMonthly(q[1], q[2])
    \/ ExportCsv
    \/ ExportJson
    \/ GetSettings
    \/ GetCategories
    \/ \E q \in ApiQueries : DashStart(q[1], q[2])
    \/ DashRead
    \/ \E outcome \in ApiOutcomes : DashFetch(outcome)
    \/ \E date \in PriceDates : PriceSolStart(date)
    \/ \E outcome \in ApiOutcomes : PriceSolFetch(outcome)
    \/ \E body \in PurchaseBodies :
          /\ CountPurchases(DOMAIN assets) < MaxPurchases
          /\ Purchase(body)

SpecApi == InitApi /\ [][NextApi]_vars

-----------------------------------------------------------------------------
(* Price lookups in flight side by side: one GET /api/price/sol and one    *)
(* GET /api/dashboard at a time, over a store that earlier POSTs filled    *)

\* the i-th stored transaction: 100 dollars at the gym on 2026-01-03, every
\* third one dated the 30th of February
StoredTransaction(i) ==
    [id |-> i,
     date |-> IF i % 3 = 0 THEN Feb30 ELSE Jan03,
     description |-> Gym,
     category |-> Uncategorized,
     amount |-> 100000]

StoredLists == {[i \in 1..n |-> StoredTransaction(i)] : n \in 0..MaxDashTx}

\* January 2026 and the current month
PricesQueries == {<<QInt(2026), QInt(1)>>, <<QAbsent, QAbsent>>}

PricesDates == {Jan03, Today}

InitPrices ==
    /\ revision = "tracker"
    /\ txFile \in {TxArray(list) : list \in StoredLists}
    /\ settingsFile = DefaultSettingsFile
    /\ pricesFile = PricesCache(EmptyMap)
    /\ categoriesFile = CategoriesList(InitialCategories)
    /\ assets = EmptyMap
    /\ nextId = MaxDashTx + 1
    /\ dash = DashIdle
    /\ priceReq = PriceIdle
    /\ posts = NoPosts
    /\ txTemp = TempAbsent
    /\ livePriceCache = LiveCacheEmpty
    /\ liveReq = NoLiveRequests
    /\ now = 0
    /\ page = NoPage
    /\ resp = [op |-> "none"]

NextPrices ==
    \/ \E date \in PricesDates : PriceSolArrive(date)
    \/ \E outcome \in ApiOutcomes : PriceSolFetched(outcome)
    \/ PriceSolWritten
    \/ \E q \in PricesQueries : DashArrive(q[1], q[2])
    \/ DashRead
    \/ \E outcome \in ApiOutcomes : DashFetched(outcome)
    \/ DashWritten

SpecPrices == InitPrices /\ [][NextPrices]_vars

-----------------------------------------------------------------------------
(* The live price: requests in flight side by side while the clock runs *)

InitLive ==
    /\ revision = "tracker"
    /\ txFile = TxArray(<<>>)
    /\ settingsFile = DefaultSettingsFile
    /\ pricesFile = PricesCache(EmptyMap)
    /\ categoriesFile = CategoriesList(InitialCategories)
    /\ assets = EmptyMap
    /\ nextId = 1
    /\ dash = DashIdle
    /\ priceReq = PriceIdle
    /\ posts = NoPosts
    /\ txTemp = TempAbsent
    /\ livePriceCache = LiveCacheEmpty
    /\ liveReq = NoLiveRequests
    /\ now = 0
    /\ page = NoPage
    /\ resp = [op |-> "none"]

NextLive ==
    \/ LiveArrive
    \/ \E i \in 1..MaxLive, outcome \in ApiOutcomes : LiveFetched(i, outcome)
    \/ \E minutes \in Waits : Tick(minutes)

SpecLive == InitLive /\ [][NextLive]_vars

-----------------------------------------------------------------------------
(* POST /api/transactions in flight side by side *)

\* 100 dollars at the gym, half a cent of food, and a body without amount
PostsBodies ==
    {BaseBody,
     [BaseBody EXCEPT !.category = JsStr(Food \o <<Space>>), !.amount = JsNum(5)],
     [BaseBody EXCEPT !.amount = JsUndefined]}

InitPosts ==
    /\ revision = "tracker"
    /\ txFile \in {TxArray(<<>>), TxUnparsable}
    /\ settingsFile = DefaultSettingsFile
    /\ pricesFile = PricesCache(EmptyMap)
    /\ categoriesFile = CategoriesList(InitialCategories)
    /\ assets = EmptyMap
    /\ nextId = 1
    /\ dash = DashIdle
    /\ priceReq = PriceIdle
    /\ posts = NoPosts
    /\ txTemp = TempAbsent
    /\ livePriceCache = LiveCacheEmpty
    /\ liveReq = NoLiveRequests
    /\ now = 0
    /\ page = NoPage
    /\ resp = [op |-> "none"]

NextPosts ==
    \/ \E body \in PostsBodies :
          /\ (validationError(body) = "" /\ txFile.kind = "array") =>
                nextId <= MaxPostId
          /\ PostRead(body)
    \/ \E i \in 1..MaxPosts : PostWriteTemp(i)
    \/ \E i \in 1..MaxPosts : PostRename(i)

SpecPosts == InitPosts /\ [][NextPosts]_vars

-----------------------------------------------------------------------------
(* The category list and the transactions that name its entries *)

OthersLower == <<"o","t","h","e","r","s">>
FoodLower == <<"f","o","o","d">>

CategoryNames ==
    {JsStr(Food), JsStr(<<Space>> \o FoodLower), JsStr(Uncategorized),
     JsStr(<<Space>>), JsStr(<<>>), JsUndefined}

DeletedNames ==
    {Food, FoodLower \o <<Space>>, Uncategorized, OthersLower, Gym, <<Space>>}

\* 100 dollars without a category, half a cent of food
CategoriesBodies ==
    {BaseBody,
     [BaseBody EXCEPT !.category = JsStr(Food \o <<Space>>), !.amount = JsNum(5)]}

InitCategories ==
    /\ revision = "tracker"
    /\ txFile \in InitTxFiles
    /\ settingsFile = DefaultSettingsFile
    /\ pricesFile = PricesCache(EmptyMap)
    /\ categoriesFile \in InitCategoriesFiles
    /\ assets = EmptyMap
    /\ nextId = 1
    /\ dash = DashIdle
    /\ priceReq = PriceIdle
    /\ posts = NoPosts
    /\ txTemp = TempAbsent
    /\ livePriceCache = LiveCacheEmpty
    /\ liveReq = NoLiveRequests
    /\ now = 0
    /\ page = NoPage
    /\ resp = [op |-> "none"]

NextCategories ==
    \/ \E body \in CategoriesBodies :
          /\ PostAccepted(body) => (Len(txFile.list) < MaxTx /\ nextId <= MaxId)
          /\ PostTransaction(body)
    \/ \E id \in 1..MaxId : DeleteTransaction(id)
    \/ \E name \in CategoryNames : PostCategory(name)
    \/ \E raw \in DeletedNames : DeleteCategory(raw)
    \/ GetCategories

SpecCategories == InitCategories /\ [][NextCategories]_vars

-----------------------------------------------------------------------------
(* The settings file and the requests that read it *)

\* settings.json with a cashbackRate of 1.5, and one of -0.03
SettingsFilesAny ==
    InitSettingsFiles
        \cup {SettingsObject(JsNum(15000), JsNum(473)),
              SettingsObject(JsNum(-300), JsNull)}

InitSettings ==
    /\ revision = "tracker"
    /\ txFile = TxArray(<<>>)
    /\ settingsFile \in SettingsFilesAny
    /\ pricesFile = PricesCache(EmptyMap)
    /\ categoriesFile = CategoriesList(InitialCategories)
    /\ assets = EmptyMap
    /\ nextId = 1
    /\ dash = DashIdle
    /\ priceReq = PriceIdle
    /\ posts = NoPosts
    /\ txTemp = TempAbsent
    /\ livePriceCache = LiveCacheEmpty
    /\ liveReq = NoLiveRequests
    /\ now = 0
    /\ page = NoPage
    /\ resp = [op |-> "none"]

NextSettings ==
    \/ GetSettings
    \/ \E body \in ApiBodies :
          /\ PostAccepted(body) => (Len(txFile.list) < MaxApiTx /\ nextId <= MaxApiTx)
          /\ PostTransaction(body)
    \/ \E query \in ApiQueries : GetMonthly(query[1], query[2])

SpecSettings == InitSettings /\ [][NextSettings]_vars

-----------------------------------------------------------------------------
(* POST /api/purchase on an empty Assets directory, for every paymentType  *)
(* of a few characters                                                     *)

TypeChars == {"a", "9", Space, ".", "/", "\\", "_", "-"}

RECURSIVE StringsUpTo(_)
StringsUpTo(n) ==
    IF n = 0 THEN {<<>>}
    ELSE LET shorter == StringsUpTo(n - 1)
         IN  shorter \cup {Append(s, c) : s \in shorter, c \in TypeChars}

TypedBodies ==
    {[paymentType |-> JsStr(s), amount |-> JsNum(100000), date |-> Jan03] :
        s \in StringsUpTo(MaxTypeLen)}

InitTyped ==
    /\ revision = "purchase"
    /\ txFile = TxArray(<<>>)
    /\ settingsFile = DefaultSettingsFile
    /\ pricesFile = PricesCache(EmptyMap)
    /\ categoriesFile = CategoriesList(InitialCategories)
    /\ assets = EmptyMap
    /\ nextId = 1
    /\ dash = DashIdle
    /\ priceReq = PriceIdle
    /\ posts = NoPosts
    /\ txTemp = TempAbsent
    /\ livePriceCache = LiveCacheEmpty
    /\ liveReq = NoLiveRequests
    /\ now = 0
    /\ page = NoPage
    /\ resp = [op |-> "none"]

NextTyped ==
    \E body \in TypedBodies : assets = EmptyMap /\ Purchase(body)

SpecTyped == InitTyped /\ [][NextTyped]_vars

-----------------------------------------------------------------------------
(* GET /api/dashboard, one request at a time, over stores of transactions  *)
(* dated before today, today and after today                               *)

\* 100 dollars on 2026-01-03, today and on the 30th of February, and 16.5
\* cents on 2026-01-03
DashStored ==
    {[date |-> Jan03, amount |-> 100000], [date |-> Today, amount |-> 100000],
     [date |-> Feb30, amount |-> 100000], [date |-> Jan03, amount |-> 165]}

RECURSIVE DashLists(_)
DashLists(n) ==
    IF n = 0 THEN {<<>>}
    ELSE LET shorter == DashLists(n - 1)
         IN  shorter \cup
             {Append(list,
                     [id |-> Len(list) + 1, date |-> t.date, description |-> Gym,
                      category |-> Uncategorized, amount |-> t.amount]) :
                 list \in shorter, t \in DashStored}

InitDash ==
    /\ revision = "tracker"
    /\ txFile \in {TxArray(list) : list \in DashLists(MaxDashTx)}
    /\ settingsFile = DefaultSettingsFile
    /\ pricesFile = PricesCache(EmptyMap)
    /\ categoriesFile = CategoriesList(InitialCategories)
    /\ assets = EmptyMap
    /\ nextId = MaxDashTx + 1
    /\ dash = DashIdle
    /\ priceReq = PriceIdle
    /\ posts = NoPosts
    /\ txTemp = TempAbsent
    /\ livePriceCache = LiveCacheEmpty
    /\ liveReq = NoLiveRequests
    /\ now = 0
    /\ page = NoPage
    /\ resp = [op |-> "none"]

NextDash ==
    \/ \E query \in PricesQueries : DashStart(query[1], query[2])
    \/ DashRead
    \/ \E outcome \in ApiOutcomes : DashFetch(outcome)

SpecDash == InitDash /\ [][NextDash]_vars

-----------------------------------------------------------------------------
(* The page, loaded on the day of Today against a server that answers   *)
(* every period; the selectors offer the months and years below.          *)

SelectorMonths == {Today.m - 1, Today.m, Today.m + 1}
SelectorYears == {Today.y - 1, Today.y}

InitPage ==
    /\ revision = "tracker"
    /\ txFile = TxArray(<<>>)
    /\ settingsFile = DefaultSettingsFile
    /\ pricesFile = PricesCache(EmptyMap)
    /\ categoriesFile = CategoriesList(InitialCategories)
    /\ assets = EmptyMap
    /\ nextId = 1
    /\ dash = DashIdle
    /\ priceReq = PriceIdle
    /\ posts = NoPosts
    /\ txTemp = TempAbsent
    /\ livePriceCache = LiveCacheEmpty
    /\ liveReq = NoLiveRequests
    /\ now = 0
    /\ page = refreshForSelectedPeriod(NoPage)
    /\ resp = [op |-> "none"]

NextPage ==
    \/ \E month \in SelectorMonths : ChangeMonth(month)
    \/ \E year \in SelectorYears : ChangeYear(year)
    \/ \E i \in 1..MaxFetches : FetchAnswered(i)
    \/ \E i \in 1..MaxFetches : FetchFailed(i)

SpecPage == InitPage /\ [][NextPage]_vars

-----------------------------------------------------------------------------
(* Properties.  What a property says of a date, a sum or a rounding is     *)
(* written here from the calendar and from arithmetic, not with the        *)
(* operators of the handlers.                                              *)

\* the transaction list is an array (it was empty when the server started)
StoreReadable == txFile.kind = "array"

\* the ids of a list
Ids(list) == {list[i].id : i \in 1..Len(list)}

\* list without its i-th entry
Without(list, i) ==
    [j \in 1..(Len(list) - 1) |-> IF j < i THEN list[j] ELSE list[j + 1]]

\* C1: DELETE /api/transactions/:id on a store that contains the id removes
\* exactly one entry (the list is one shorter, the other entries keep their
\* order) and answers 200 {ok: true, deletedId}; a DELETE of an id the store
\* does not contain, and so a second DELETE of the same id, answers 404 and
\* leaves the stored list unchanged.
C1_DeleteRemovesExactlyOne ==
    [][(resp'.op = DeleteOp /\ StoreReadable) =>
          /\ resp'.id \in Ids(txFile.list) =>
                /\ resp'.status = 200
                /\ resp'.body = [ok |-> TRUE, deletedId |-> resp'.id]
                /\ txFile'.kind = "array"
                /\ \E i \in 1..Len(txFile.list) :
                      /\ txFile.list[i].id = resp'.id
                      /\ txFile'.list = Without(txFile.list, i)
          /\ resp'.id \notin Ids(txFile.list) =>
                /\ resp'.status = 404
                /\ txFile' = txFile
          /\ (resp.op = DeleteOp /\ resp.status = 200 /\ resp'.id = resp.id) =>
                /\ resp'.status = 404
                /\ txFile' = txFile
      ]_vars

\* C1 witness: an id that was handed out and deleted is deleted again and
\* answered 404, with other transactions in the store
C1_Witness ==
    /\ resp.op = DeleteOp
    /\ resp.status = 404
    /\ resp.id < nextId
    /\ StoreReadable
    /\ Len(txFile.list) >= 1

\* the year and month a query asks for, when it names both
Asks(r, y, m) == r.qyear = QInt(y) /\ r.qmonth = QInt(m)

\* C2: after a POST /api/transactions answered 201, GET /api/monthly for the
\* year and month written in the transaction's date returns the transaction
\* exactly once, with the id, amount, date and category of the 201 response.
C2_RoundTrip ==
    [][(/\ resp.op = PostOp
        /\ resp.status = 201
        /\ resp'.op = MonthlyOp
        /\ Asks(resp', resp.body.date.y, resp.body.date.m)) =>
          /\ resp'.status = 200
          /\ Cardinality({i \in 1..Len(resp'.body.transactions) :
                            resp'.body.transactions[i].id = resp.body.id}) = 1
          /\ \A i \in 1..Len(resp'.body.transactions) :
                resp'.body.transactions[i].id = resp.body.id =>
                   /\ resp'.body.transactions[i].amount = resp.body.amount
                   /\ resp'.body.transactions[i].date = resp.body.date
                   /\ resp'.body.transactions[i].category = resp.body.category
      ]_vars

RECURSIVE SumOver(_, _)
SumOver(f, keys) ==
    IF keys = {} THEN 0
    ELSE LET k == CHOOSE x \in keys : TRUE IN f[k] + SumOver(f, keys \ {k})

\* C3: in a GET /api/monthly response the values of categorySummary add up to
\* totals.spent.
C3_CategoriesSumToSpent ==
    (resp.op = MonthlyOp /\ resp.status = 200) =>
        SumOver(resp.body.categorySummary, DOMAIN resp.body.categorySummary)
            = resp.body.totals.spent

\* c is amount * rate rounded to 2 decimal places (a half cent goes up):
\* mills, rate in 1/10000
IsRound2(c, amount, rate) ==
    /\ c % 10 = 0
    /\ 10000 * c - amount * rate > -50000
    /\ 10000 * c - amount * rate <= 50000

RateInUnitInterval(rate) == rate >= 0 /\ rate <= 10000

\* the purchases stored in the year files
StoredPurchases ==
    UNION {{assets[f].data.months[m].transactions[i] :
               i \in 1..Len(assets[f].data.months[m].transactions)} :
           <<f, m>> \in {fm \in (DOMAIN assets) \X MonthNumbers :
                            assets[fm[1]].kind = "data"}}

C5_AvgPriceNullIffNoSol ==
    (resp.op = DashboardOp /\ resp.status = 200) =>
        /\ (resp.body.sol.avgPriceUSD = JsNull) <=> (resp.body.sol.totalSOL = JsNum(0))
        /\ ~resp.locals.dividedByZero

\* a date string that names a day of the calendar
IsCalendarDate(date) ==
    /\ date.t = "date"
    /\ date.m \in 1..12
    /\ date.d >= 1
    /\ date.d <= DaysInMonth(date.y, date.m)

\* C6: whatever the settings, price-cache and category files hold (missing,
\* unparsable, or JSON of another shape), /api/settings, /api/categories,
\* /api/price/sol and /api/dashboard do not answer with an error: settings
\* fall back to 0.03 and 0.0473, the category list to ["Others"], the price
\* cache to an empty one.
C6_FilesFallBackToDefaults ==
    /\ resp.op = SettingsOp =>
          /\ resp.status = 200
          /\ settingsFile.kind = "object"
          /\ resp.body.cashbackRate =
                IF settingsFile.cashbackRate.t = "number"
                THEN settingsFile.cashbackRate.v ELSE 300
          /\ resp.body.stakingAPR =
                IF settingsFile.stakingAPR.t = "number"
                THEN settingsFile.stakingAPR.v ELSE 473
    /\ resp.op = CategoriesOp =>
          /\ resp.status = 200
          /\ categoriesFile.kind # "list" => resp.body.categories = <<Others>>
    /\ (resp.op = PriceOp /\ IsCalendarDate(resp.date)) => resp.status # 500
    /\ resp.op = DashboardOp => resp.status # 500

\* the requests that read the transactions file
ReadsTransactions ==
    {MonthlyOp, DashboardOp, PostOp, DeleteOp, ExportCsvOp, ExportJsonOp}

\* C7: with an unparsable transactions file, every endpoint that reads it
\* takes the list as empty and does not answer 500.
C7_UnparsableTransactionsAreEmpty ==
    (txFile = TxUnparsable /\ resp.op \in ReadsTransactions) =>
        /\ resp.status # 500
        /\ (resp.op = MonthlyOp /\ resp.status = 200) =>
              resp.body.transactions = <<>>
        /\ (resp.op = DashboardOp /\ resp.status = 200) =>
              resp.body.spending.count = 0
        /\ resp.op = DeleteOp => resp.status = 404
        /\ resp.op = ExportCsvOp => resp.body = <<>>
        /\ resp.op = ExportJsonOp => resp.body = TxArray(<<>>)

\* the stored transactions whose date is written in year y, month m
DatedIn(list, y, m) ==
    LET In(t) == t.date.y = y /\ t.date.m = m IN SelectSeq(list, In)

\* the nearest number of cents to a number of mills, a half cent going up
IsNearestCent(c, mills) == c % 10 = 0 /\ c - mills > -5 /\ c - mills <= 5

RECURSIVE SumRound2(_, _)
SumRound2(list, rate) ==
    IF list = <<>> THEN 0
    ELSE (CHOOSE c \in 0..(Head(list).amount + 10) :
              IsRound2(c, Head(list).amount, rate))
         + SumRound2(Tail(list), rate)

\* C8: from an empty store, after any POSTs and DELETEs, GET /api/monthly for
\* (year, month) reports the number of stored transactions dated in that
\* month, the 2-decimal rounding of the sum of their amounts and the
\* 2-decimal rounding of the sum of their cashbacks; one transaction of 100
\* dated 2026-01-03 at the rate 0.03 gives spent 100, cashback 3, count 1.
C8_MonthlyTotals ==
    (/\ resp.op = MonthlyOp
     /\ resp.status = 200
     /\ resp.qyear.t = "int"
     /\ resp.qmonth.t = "int"
     /\ resp.qmonth.v \in 1..12) =>
        LET mine == DatedIn(txFile.list, resp.qyear.v, resp.qmonth.v)
            rate == readSettings(settingsFile).settings.cashbackRate
        IN  /\ resp.body.totals.count = Len(mine)
            /\ IsNearestCent(resp.body.totals.spent, SumAmounts(mine))
            /\ rate \in {0, 300} =>
                  resp.body.totals.cashback = SumRound2(mine, rate)

\* C9: from an empty store, every stored transaction has an amount above 0,
\* a date in the form YYYY-MM-DD that names a day of the calendar, a
\* description that is trimmed and not empty, and a category that is not
\* empty.
C9_StoredTransactionsValid ==
    StoreReadable =>
        \A i \in 1..Len(txFile.list) :
            LET t == txFile.list[i]
            IN  /\ t.amount > 0
                /\ IsCalendarDate(t.date)
                /\ t.description # <<>>
                /\ Head(t.description) # Space
                /\ t.description[Len(t.description)] # Space
                /\ t.category # <<>>

\* a POST body with a missing or invalid description, amount or date, a
\* date being valid when it names a day of the calendar
InvalidAsSpecified(body) ==
    \/ body.description.t # "string"
    \/ \A i \in 1..Len(body.description.s) : body.description.s[i] = Space
    \/ body.amount.t # "number"
    \/ body.amount.v <= 0
    \/ ~IsCalendarDate(body.date)

\* C10: on a readable store, a POST /api/transactions with a missing or
\* invalid description, amount or date is answered 400 and leaves the stored
\* list as it was.
C10_InvalidPostRejected ==
    [][(StoreReadable /\ resp'.op = PostOp /\ InvalidAsSpecified(resp'.req)) =>
          /\ resp'.status = 400
          /\ txFile' = txFile
      ]_vars

\* C11: the price cache file is append-only under any interleaving of
\* GET /api/price/sol and GET /api/dashboard: a date that has a price in
\* the file keeps that price in every later state, and no request goes to
\* the API for it.
C11_PriceCacheAppendOnly ==
    [][/\ \A d \in DOMAIN WrittenEntries(pricesFile) :
             /\ d \in DOMAIN WrittenEntries(pricesFile')
             /\ WrittenEntries(pricesFile')[d] = WrittenEntries(pricesFile)[d]
       /\ (priceReq.pc = "idle" /\ priceReq'.pc = "fetch") =>
             priceReq'.date \notin DOMAIN WrittenEntries(pricesFile)
       /\ (dash.pc = "read" /\ dash'.pc = "fetch") =>
             LookupDate(dash) \notin DOMAIN WrittenEntries(pricesFile)
      ]_vars

\* C12: GET /api/price/sol answers a cached date from the cache in one step
\* (source 'cache'); a miss that the API answers is persisted and returned
\* (source 'api'), and the next request for the date is answered from the
\* cache with the same price; a miss that the API fails is answered 502
\* with the cache file unchanged.
C12_PriceResolution ==
    [][/\ (resp'.op = PriceOp /\ resp'.status = 502) => pricesFile' = pricesFile
       /\ (priceReq.pc = "fetch" /\ resp'.op = PriceOp /\ resp'.status = 200) =>
             /\ resp'.body.source = "api"
             /\ pricesFile'.kind = "cache"
             /\ resp'.date \in DOMAIN pricesFile'.sol
             /\ pricesFile'.sol[resp'.date] = resp'.body.priceUSD
       /\ (/\ resp.op = PriceOp
           /\ resp.status = 200
           /\ priceReq.pc = "idle"
           /\ resp'.op = PriceOp
           /\ resp'.date = resp.date) =>
             resp' = [resp EXCEPT !.body.source = "cache"]
      ]_vars

\* C13: in a GET /api/dashboard response a transaction whose price resolved
\* to null adds nothing to the average price: sol.avgPriceUSD is the cashback
\* of the month's priced transactions over sol.totalSOL, to the nearest cent.
C13_NullPriceExcluded ==
    (/\ resp.op = DashboardOp
     /\ resp.status = 200
     /\ resp.locals.solTotalSOL.k = "fin"
     /\ resp.locals.solTotalSOL.n > 0) =>
        LET sol == resp.locals.solTotalSOL
            usd == resp.locals.pricedCashbackUSD
            avg == resp.body.sol.avgPriceUSD
        IN  /\ avg.t = "number"
            /\ avg.v % 10 = 0
            /\ avg.v * sol.n - usd * sol.d > -5 * sol.n
            /\ avg.v * sol.n - usd * sol.d <= 5 * sol.n

\* C15: every write of a persisted file replaces the file in one step (a
\* temporary file renamed over it), so no file is ever partially written
\* and no request reads one that is.
C15_WritesAreAtomic ==
    [][/\ pricesFile'.kind # "partial"
       /\ ~(pricesFile.kind = "partial" /\ dash.pc = "read" /\ dash'.pc = "fetch")
       /\ ~(pricesFile.kind = "partial" /\ priceReq.pc = "idle"
            /\ priceReq'.pc = "fetch")
      ]_vars

\* C14: GET /api/price/sol/live answers with source 'cache', and without a
\* call of the API, only when the API gave a price less than 15 minutes
\* before the request; otherwise it calls the API, and when the call fails
\* it answers the last price the API gave as 'stale-cache', or 502 when the
\* API never gave one; a failed call leaves the cached price and its
\* timestamp as they were.
C14_LivePrice ==
    [][(resp'.op = LiveOp /\ resp'.status # 0
        /\ (resp' # resp \/ liveReq' # liveReq)) =>
          /\ (resp'.status = 200 /\ resp'.body.source = "cache") =>
                /\ ~resp'.fetched
                /\ liveReq.fetched # <<>>
                /\ resp'.at - liveReq.fetched[1].at < 15
          /\ ~(resp'.status = 200 /\ resp'.body.source = "cache") => resp'.fetched
          /\ (resp'.fetched /\ resp'.failed) =>
                /\ livePriceCache' = livePriceCache
                /\ IF liveReq.fetched = <<>>
                   THEN resp'.status = 502
                   ELSE /\ resp'.status = 200
                        /\ resp'.body.source = "stale-cache"
                        /\ resp'.body.priceUSD = liveReq.fetched[1].price
      ]_vars

\* C16: writers of the transaction file are not serialized: a POST rewrites
\* the whole file with the list it read earlier and its own transaction
\* pushed onto it, whatever the file holds by then, so two POSTs that read
\* the same list can both be answered 201 and leave one transaction.
C16_LostUpdate ==
    [][/\ \A i \in 1..Len(posts.requests) :
             (posts.requests[i].pc = "write"
              /\ Len(posts'.requests) = Len(posts.requests)
              /\ posts'.requests[i].pc = "rename") =>
                /\ txTemp'.kind = "list"
                /\ Len(txTemp'.list) = Len(posts.requests[i].read) + 1
                /\ SubSeq(txTemp'.list, 1, Len(posts.requests[i].read))
                      = posts.requests[i].read
                /\ txTemp'.list[Len(txTemp'.list)].id \notin Ids(txFile.list)
       /\ posts'.created # posts.created =>
             /\ resp'.op = PostOp /\ resp'.status = 201
             /\ txTemp.kind = "list"
             /\ txFile' = TxArray(txTemp.list)
      ]_vars

\* C16 witness: two POSTs were answered 201 and the store holds one
\* transaction
C16_Witness ==
    /\ Cardinality(posts.created) = 2
    /\ posts.requests = <<>>
    /\ txFile.kind = "array"
    /\ Len(txFile.list) = 1
    /\ Ids(txFile.list) \subseteq posts.created

\* the category a DELETE /api/categories/:name names is that of a stored
\* transaction, letter case apart
NamedInUse ==
    /\ txFile.kind = "array"
    /\ \E i \in 1..Len(txFile.list) :
          toLowerCase(txFile.list[i].category) = toLowerCase(Trim(resp'.name))

C18_OthersAndUncategorized ==
    /\ resp.op = CategoriesOp =>
          /\ Includes(resp.body.categories, Others)
          /\ Includes(resp.body.categories, Uncategorized)
    /\ (resp.op = DeleteCategoryOp
        /\ toLowerCase(Trim(resp.name))
              \in {OthersLower, toLowerCase(Uncategorized)}) =>
          resp.status # 200

\* C19: whatever settings.json holds, the settings of GET /api/settings
\* have a cashbackRate that is a number from 0 to 1 and a stakingAPR that
\* is a number: a field of the file that is missing, not a number or out of
\* range comes back as its default, 0.03 and 0.0473.
C19_SettingsInRange ==
    [][(resp'.op = SettingsOp /\ resp'.status = 200) =>
          /\ resp'.body.cashbackRate \in 0..10000
          /\ resp'.body.cashbackRate =
                IF /\ settingsFile.kind = "object"
                   /\ settingsFile.cashbackRate.t = "number"
                   /\ settingsFile.cashbackRate.v \in 0..10000
                THEN settingsFile.cashbackRate.v
                ELSE DefaultCashbackRate
          /\ resp'.body.stakingAPR =
                IF /\ settingsFile.kind = "object"
                   /\ settingsFile.stakingAPR.t = "number"
                THEN settingsFile.stakingAPR.v
                ELSE DefaultStakingAPR
      ]_vars

RECURSIVE SumCashbacks(_)
SumCashbacks(list) ==
    IF list = <<>> THEN 0 ELSE Head(list).cashback + SumCashbacks(Tail(list))

\* the record of a month in a year file, that of an empty month when there
\* is no such file
MonthRecord(files, file, m) ==
    IF file \in DOMAIN files /\ files[file].kind = "data"
    THEN files[file].data.months[m]
    ELSE [totalAmount |-> 0, totalCashback |-> 0, transactions |-> <<>>]

\* C20: after an accepted purchase every month record of every year file has
\* totalAmount equal to the sum of its transactions' amounts rounded to two
\* decimals and totalCashback equal to the sum of their cashback values, the
\* transactionCount returned is the number of the month's transactions, and
\* the purchase has changed nothing but the month of its own date in the
\* file of its own payment type and year.
C20_MonthTotals ==
    [][(resp'.op = PurchaseOp /\ resp'.status = 200) =>
          LET date == IF DatePatternInvalid(resp'.req.date) THEN Today
                      ELSE resp'.req.date
              own == <<resp'.body.paymentType, date.y>>
          IN  /\ \A file \in DOMAIN assets', m \in MonthNumbers :
                    LET month == MonthRecord(assets', file, m)
                    IN  /\ month.totalAmount
                              = moneyRound(SumAmounts(month.transactions))
                        /\ month.totalCashback
                              = SumCashbacks(month.transactions)
                        /\ (file # own \/ m # date.m) =>
                              month = MonthRecord(assets, file, m)
              /\ resp'.body.monthTotals.transactionCount
                    = Len(MonthRecord(assets', own, date.m).transactions)
      ]_vars

\* C21: for every paymentType POST /api/purchase accepts, the sanitized
\* name is not empty and is made of letters, digits, underscores and
\* hyphens only (no dot, slash or backslash), does not begin or end with an
\* underscore or a hyphen, has one underscore for a run of spaces, is
\* "Unknown" when nothing remains, and names the one year file written.
C21_SanitizedName ==
    (resp.op = PurchaseOp /\ resp.status = 200) =>
        LET name == resp.body.paymentType
            typed == resp.req.paymentType.s
        IN  /\ name # <<>>
            /\ \A i \in 1..Len(name) : name[i] \in Alnum \cup {"_", "-"}
            /\ name[1] \notin {"_", "-"} /\ name[Len(name)] \notin {"_", "-"}
            /\ (\A i \in 1..Len(typed) : typed[i] # "_") =>
                  \A i \in 1..(Len(name) - 1) :
                      ~(name[i] = "_" /\ name[i + 1] = "_")
            /\ (\A i \in 1..Len(typed) : typed[i] \notin Alnum) =>
                  name = Unknown
            /\ DOMAIN assets = {<<name, resp.body.year>>}

\* C21 witness: a paymentType with a dot, a slash or a backslash was
\* accepted and the name is not "Unknown"
C21_Witness ==
    /\ resp.op = PurchaseOp
    /\ resp.status = 200
    /\ \E i \in 1..Len(resp.req.paymentType.s) :
          resp.req.paymentType.s[i] \in {".", "/", "\\"}
    /\ resp.body.paymentType # Unknown

\* the date is today or an earlier day, as the dates are written
NotAfterToday(date) ==
    \/ date.y < Today.y
    \/ date.y = Today.y /\ date.m < Today.m
    \/ date.y = Today.y /\ date.m = Today.m /\ date.d <= Today.d

\* the elements of a sequence are different from each other
Distinct(seq) == \A i, j \in 1..Len(seq) : seq[i] = seq[j] => i = j

Range(seq) == {seq[i] : i \in 1..Len(seq)}

\* C23: within one dashboard request a date whose price fetch failed is not
\* fetched again: a transaction of the month dated today or earlier is
\* priced in the month's SOL simulation exactly when it is priced in the
\* accrual to date of the same response.
C23_NoRetry ==
    (resp.op = DashboardOp /\ resp.status = 200) =>
        \A i \in 1..Len(resp.locals.monthTransactions) :
            LET t == resp.locals.monthTransactions[i]
            IN  NotAfterToday(t.date) =>
                   (t.id \in Range(resp.locals.priced)
                       <=> t.id \in Range(resp.locals.pricedToDate))

\* the sum of what the transactions added to earnedSOL
RECURSIVE SumEarned(_)
SumEarned(accrued) ==
    IF accrued = <<>> THEN Zero
    ELSE NumAdd(SumEarned(SubSeq(accrued, 1, Len(accrued) - 1)),
                accrued[Len(accrued)].earned)

\* C24: stakingToDate is computed over all stored transactions dated today
\* or earlier, whatever month was asked for: each priced one adds
\* (cashbackUSD / price) * APR * daysStaked / 365 to earnedSOL with
\* daysStaked the whole days from its date to today, one dated today adds
\* 0, one dated after today adds nothing, and earnedUSD is 0 when today's
\* price is not available.
C24_StakingToDate ==
    (resp.op = DashboardOp /\ resp.status = 200) =>
        LET all == resp.locals.allTransactions
            accrued == resp.locals.accrued
        IN  /\ \A k \in 1..Len(accrued) :
                  \E i \in 1..Len(all) :
                     LET t == all[i]
                         days == DayNumber(ParseLocalDate(Today))
                                 - DayNumber(ParseLocalDate(t.date))
                     IN  /\ t.id = accrued[k].id
                         /\ NotAfterToday(t.date)
                         /\ accrued[k].cashbackUSD
                               = moneyRoundRate(t.amount, resp.body.cashback.rate)
                         /\ IF days = 0 THEN accrued[k].earned = Zero
                            ELSE accrued[k].price # 0 =>
                                    accrued[k].earned
                                       = Fin(accrued[k].cashbackUSD
                                                * resp.body.stakingToDate.apr * days,
                                             10 * accrued[k].price)
            /\ resp.locals.earnedSOL = SumEarned(accrued)
            /\ resp.body.stakingToDate.earnedSOL
                  = toFixed6Of(resp.locals.earnedSOL, AprYear)
            /\ resp.locals.todayPriceUSD.t = "null" =>
                  resp.body.stakingToDate.earnedUSD = JsNum(0)

\* a year that is no number or is outside 2000..2100, or a month that is no
\* number or is outside 1..12
QueryInvalid(qyear, qmonth) ==
    \/ qyear.t = "text"
    \/ qyear.t = "int" /\ qyear.v \notin 2000..2100
    \/ qmonth.t = "text"
    \/ qmonth.t = "int" /\ qmonth.v \notin 1..12

\* C25: GET /api/dashboard and GET /api/monthly answer 400 when the year is
\* no number or outside 2000..2100 or the month is no number or outside
\* 1..12, month 0 and month 13 included, whenever the transaction store is
\* readable; a parameter that is given and valid is the one the response is
\* for.
C25_InvalidPeriodIs400 ==
    (resp.op \in {MonthlyOp, DashboardOp} /\ StoreReadable) =>
        /\ QueryInvalid(resp.qyear, resp.qmonth) => resp.status = 400
        /\ (~QueryInvalid(resp.qyear, resp.qmonth) /\ resp.status = 200) =>
              LET period == IF resp.op = MonthlyOp THEN resp.body
                            ELSE resp.body.period
              IN  /\ resp.qyear.t = "int" => period.year = resp.qyear.v
                  /\ resp.qmonth.t = "int" => period.month = resp.qmonth.v

\* C26: in a dashboard response spending.totalSpent is the sum of the
\* month's amounts rounded to two decimals, and cashback.totalCashbackUSD is
\* that rounded totalSpent times the cashbackRate, rounded to two decimals,
\* for every cashbackRate from 0 to 1.
C26_CashbackOfRoundedTotal ==
    (/\ resp.op = DashboardOp
     /\ resp.status = 200
     /\ resp.body.cashback.rate \in 0..10000) =>
        /\ resp.body.spending.totalSpent
              = moneyRound(SumAmounts(resp.locals.monthTransactions))
        /\ resp.body.cashback.totalCashbackUSD
              = moneyRoundRate(resp.body.spending.totalSpent,
                               resp.body.cashback.rate)

\* C27: for the same readable store, settings and valid year and month,
\* GET /api/monthly and GET /api/dashboard agree: totals.count is
\* spending.count, totals.spent is spending.totalSpent, and totals.cashback
\* is both cashback.totalCashbackUSD and sol.totalCashbackUSD.
C27_MonthlyAgreesWithDashboard ==
    (/\ resp.op = DashboardOp
     /\ resp.status = 200
     /\ StoreReadable
     /\ resp.locals.allTransactions = txFile.list) =>
        LET totals ==
                monthlyTotals(
                    transactionsWithCashback(
                        filterByMonth(txFile.list,
                                      parseIntOr(QInt(resp.body.period.year), Today.y),
                                      parseIntOr(QInt(resp.body.period.month), Today.m)),
                        readSettings(settingsFile).settings.cashbackRate))
        IN  /\ totals.count = resp.body.spending.count
            /\ totals.spent = resp.body.spending.totalSpent
            /\ totals.cashback = resp.body.sol.totalCashbackUSD
            /\ totals.cashback = resp.body.cashback.totalCashbackUSD

\* C28: whatever the interleaving of the requests that write through
\* transactions.json.tmp, a POST answered 201 has its transaction in the
\* store at the moment of the response, and a POST answered 500 has left
\* the store without its transaction.
C28_ResponseAgreesWithStore ==
    [][\A i \in 1..Len(posts.requests) :
          (/\ posts.requests[i].pc = "rename"
           /\ posts'.requests = RemoveAt(posts.requests, i)) =>
              LET transactions == posts.requests[i].transactions
                  id == transactions[Len(transactions)].id
              IN  /\ txFile'.kind = "array"
                  /\ resp'.status = 201 => id \in Ids(txFile'.list)
                  /\ resp'.status = 500 => id \notin Ids(txFile'.list)
      ]_vars

\* C29: whatever the interleaving of the GET /api/price/sol/live requests,
\* the timestamp of the live-price cache never decreases: a request that
\* arrived earlier and finishes its fetch later does not replace a newer
\* cached price with its older timestamp.
C29_TimestampNeverDecreases ==
    [][(livePriceCache.timestamp.t = "number") =>
          /\ livePriceCache'.timestamp.t = "number"
          /\ livePriceCache'.timestamp.v >= livePriceCache.timestamp.v]_vars


\* what a panel shows is the data of the selected period, when it shows data
ShowsSelected(panel) ==
    panel.t = "data" =>
        panel.label = periodLabel(page.selectedPeriod.year,
                                  page.selectedPeriod.month)

\* C30: once every fetch of the page has completed, in whatever order, the
\* monthly panel and the dashboard panel both show the data of the period
\* the selectors now hold (a panel whose last fetch failed shows its error)
C30_PanelsShowSelectedPeriod ==
    page.fetches = <<>> =>
        /\ ShowsSelected(page.monthly)
        /\ ShowsSelected(page.dashboard)

====
